---------------------------- MODULE Spec2Model ----------------------------
(* Recommendation engine of src/src/Gemini/context.ts: the persisted       *)
(* key-value store (localStorage), the interaction recorder, the history   *)
(* scorer (getUserPreferredCategories), the rule-based fallback and the    *)
(* AI/fallback arbitration of getRecommendations; the rate-limited chat     *)
(* functions; the shopping assistant (EnhancedChatbot) with its query      *)
(* routing; the AI chat components (ChatBotPage, Conversation,             *)
(* SessionChat) and the demo widget (ChatBot).                             *)
(*                                                                         *)
(* JavaScript values are modelled as follows.                              *)
(*   - a value that may throw is a record [ok, v]: ok = FALSE is a throw;  *)
(*   - a store entry is [k, v]: k = "absent" (getItem gives null),         *)
(*     k = "bad" (text JSON.parse rejects), k = "val" (parsed value v);    *)
(*   - a product is [product_id, category]; a category that is missing     *)
(*     from the JSON is the marker Undefined;                              *)
(*   - an interaction record is [id, category, action];                    *)
(*   - a text is a sequence of tokens, a string a sequence of characters.  *)
EXTENDS Integers, Sequences, FiniteSets, TLC

VARIABLES store, model, pc, call, res, log, rl, shop, chat, demo

vars == <<store, model, pc, call, res, log, rl, shop, chat, demo>>

\* the state of the chat components: the shopping assistant, the AI chat
\* components and the demo widget
ui == <<shop, chat, demo>>

\* the record of the tracked interactions, the state of the rate-limited
\* chat functions and the chat components, which the recommendation engine
\* does not touch
aux == <<log, rl, ui>>

(***************************************************************************)
(* Bounds of the model                                                     *)
(***************************************************************************)
MaxHist == 3

MaxCatHist == 3

MaxCtxHist == 2

MaxResp == 2

\* tracker calls made after the initial history of SpecTrack
MaxTrack == 3

\* calls of the functions that reach the backend, in SpecRate
MaxCalls == 3

\* advances of the clock in SpecRate
MaxTicks == 3

(***************************************************************************)
(* Program constants                                                       *)
(***************************************************************************)
TopCategories == 6

TopProducts == 5

ClickCap == 50

\* MIN_REQUEST_INTERVAL of the three rate-limited generateAIResponse
\* functions, in milliseconds
MIN_REQUEST_INTERVAL_bot == 3000

MIN_REQUEST_INTERVAL_conversation == 2000

MIN_REQUEST_INTERVAL_chatbot == 3000

(***************************************************************************)
(* Generic sequence helpers (Array.prototype.slice, filter, some)          *)
(***************************************************************************)
Min(a, b) == IF a < b THEN a ELSE b

Range(s) == {s[i] : i \in 1..Len(s)}

\* s.slice(0, n)
SliceFirst(s, n) == SubSeq(s, 1, Min(n, Len(s)))

\* s.slice(-n)
SliceLast(s, n) == IF Len(s) <= n THEN s ELSE SubSeq(s, Len(s) - n + 1, Len(s))

SeqsUpTo(S, n) == UNION {[1..k -> S] : k \in 0..n}

Ok(v) == [ok |-> TRUE, v |-> v]

Throw == [ok |-> FALSE, v |-> <<>>]

(***************************************************************************)
(* Category labels                                                         *)
(***************************************************************************)
Undefined == "<undefined>"

\* The value of a label that is a canonical array index ("2", "10"), -1 for
\* every other label: Object.entries lists such keys first, in ascending
\* numeric order, before the other keys in insertion order.
ArrayIndex(label) ==
    CASE label = "2" -> 2
      [] label = "10" -> 10
      [] OTHER -> -1

\* String.prototype.toLowerCase on the labels of the model; a missing
\* category has no toLowerCase method and the call throws.
toLowerCase(label) ==
    CASE label = Undefined -> Throw
      [] label = "Fruits" -> Ok("fruits")
      [] label = "Vegetables" -> Ok("vegetables")
      [] label = "Dairy" -> Ok("dairy")
      [] label = "Meat" -> Ok("meat")
      [] label = "Grains" -> Ok("grains")
      [] OTHER -> Ok(label)

(***************************************************************************)
(* The persisted key-value store                                           *)
(***************************************************************************)
Keys == {"userPreferences", "userHistory", "appData",
         "clickedItems", "cartItems", "mostOrderedItems"}

Absent == [k |-> "absent", v |-> <<>>]

Bad == [k |-> "bad", v |-> <<>>]

Val(v) == [k |-> "val", v |-> v]

\* JSON.parse(localStorage.getItem(key) || default)
ParseItem(st, key, default) ==
    CASE st[key].k = "absent" -> Ok(default)
      [] st[key].k = "bad" -> Throw
      [] OTHER -> Ok(st[key].v)

getUserPreferences(st) == ParseItem(st, "userPreferences", <<>>)

getUserInteractionHistory(st) == ParseItem(st, "userHistory", <<>>)

getRelevantAppData(st) == ParseItem(st, "appData", <<>>)

getClickedItems(st) == ParseItem(st, "clickedItems", <<>>)

getCartItems(st) == ParseItem(st, "cartItems", <<>>)

getMostOrderedItems(st) == ParseItem(st, "mostOrderedItems", <<>>)

(***************************************************************************)
(* getUserPreferredCategories                                              *)
(***************************************************************************)
\* allItems.map(item => item.category).filter(Boolean)
CategoriesOf(allItems) ==
    LET cats == [i \in 1..Len(allItems) |-> allItems[i].category]
    IN SelectSeq(cats, LAMBDA c : c # "" /\ c # Undefined)

\* categories.reduce(...): the number of occurrences of a category
CountOf(categories, c) == Cardinality({i \in 1..Len(categories) : categories[i] = c})

RECURSIVE FirstOccurrences(_)
\* the distinct elements of a sequence in the order of first occurrence
FirstOccurrences(s) ==
    IF s = <<>> THEN <<>>
    ELSE LET init == FirstOccurrences(SubSeq(s, 1, Len(s) - 1))
             last == s[Len(s)]
         IN IF last \in Range(init) THEN init ELSE Append(init, last)

RECURSIVE AscendingIndexKeys(_)
\* the array-index keys of a set of labels, in ascending numeric order
AscendingIndexKeys(S) ==
    IF S = {} THEN <<>>
    ELSE LET m == CHOOSE x \in S : \A y \in S : ArrayIndex(x) <= ArrayIndex(y)
         IN <<m>> \o AscendingIndexKeys(S \ {m})

\* Object.entries(categoryCount): the own keys of the accumulator in
\* property order (array-index keys ascending, then insertion order)
ObjectKeys(categories) ==
    LET distinct == FirstOccurrences(categories)
        idx == {c \in Range(distinct) : ArrayIndex(c) >= 0}
    IN AscendingIndexKeys(idx) \o SelectSeq(distinct, LAMBDA c : ArrayIndex(c) < 0)

RECURSIVE InsertByCount(_, _, _)
\* insert key into a sequence sorted by descending count, after every key
\* whose count is not smaller (the sort is stable)
InsertByCount(sorted, key, categories) ==
    IF sorted = <<>> THEN <<key>>
    ELSE IF CountOf(categories, sorted[1]) >= CountOf(categories, key)
         THEN <<sorted[1]>> \o InsertByCount(Tail(sorted), key, categories)
         ELSE <<key>> \o sorted

RECURSIVE SortByCount(_, _)
\* .sort(([, a], [, b]) => b - a)
SortByCount(keys, categories) ==
    IF keys = <<>> THEN <<>>
    ELSE InsertByCount(SortByCount(SubSeq(keys, 1, Len(keys) - 1), categories),
                       keys[Len(keys)], categories)

TopSlice_NoCap(sorted) == sorted

\* .slice(0, 6)
TopSlice(sorted) == SliceFirst(sorted, TopCategories)

\* the ranking computed from the concatenated interaction list
RankCategories(allItems) ==
    LET categories == CategoriesOf(allItems)
    IN TopSlice(SortByCount(ObjectKeys(categories), categories))

getUserPreferredCategories(st) ==
    LET clickedItems == getClickedItems(st)
        cartItems == getCartItems(st)
        orderedItems == getMostOrderedItems(st)
    IN IF ~clickedItems.ok \/ ~cartItems.ok \/ ~orderedItems.ok THEN Throw
       ELSE Ok(RankCategories(clickedItems.v \o cartItems.v \o orderedItems.v))

(***************************************************************************)
(* Products, interaction records and contexts                              *)
(***************************************************************************)
Product(id, category) == [product_id |-> id, category |-> category]

Interaction(id, category, action) == [id |-> id, category |-> category, action |-> action]

\* the sample catalog getAppContextWithFallbacks substitutes for an empty one
SampleProducts ==
    << Product(1, "Fruits"), Product(2, "Fruits"), Product(3, "Vegetables"),
       Product(4, "Dairy"), Product(5, "Meat") >>

AppContext(products, clickedItems, cartItems, mostOrderedItems, categories) ==
    [ appData |-> [products |-> products],
      clickedItems |-> clickedItems,
      cartItems |-> cartItems,
      mostOrderedItems |-> mostOrderedItems,
      categories |-> categories ]

EmptyContext == AppContext(<<>>, <<>>, <<>>, <<>>, <<>>)

Recommendation(productId, reason) == [productId |-> productId, reason |-> reason]

(***************************************************************************)
(* getFallbackRecommendations                                              *)
(***************************************************************************)
\* new Set([...clickedItems.map(id), ...cartItems.map(id), ...mostOrderedItems.map(id)])
userInteractedProducts(userContext) ==
    {userContext.clickedItems[i].id : i \in 1..Len(userContext.clickedItems)}
    \cup {userContext.cartItems[i].id : i \in 1..Len(userContext.cartItems)}
    \cup {userContext.mostOrderedItems[i].id : i \in 1..Len(userContext.mostOrderedItems)}

NotInteracted_Off(userContext, product) == TRUE

\* .filter((product) => !userInteractedProducts.has(product.product_id))
NotInteracted(userContext, product) ==
    product.product_id \notin userInteractedProducts(userContext)

\* .filter((product) => userContext.categories.includes(product.category))
InPreferred(userContext, product) ==
    product.category \in Range(userContext.categories)

\* .slice(0, 5)
ProductSlice(products) == SliceFirst(products, TopProducts)

\* the branch taken when userContext.categories.length > 0
PreferredBranch(userContext) ==
    LET allProducts == userContext.appData.products
        kept == SelectSeq(allProducts,
                    LAMBDA p : NotInteracted(userContext, p) /\ InPreferred(userContext, p))
        top == ProductSlice(kept)
    IN Ok([i \in 1..Len(top) |->
            Recommendation(top[i].product_id, <<"interest", top[i].category>>)])

\* the branch taken when there are no preferred categories
PopularBranch(userContext) ==
    LET allProducts == userContext.appData.products
        kept == SelectSeq(allProducts, LAMBDA p : NotInteracted(userContext, p))
        top == ProductSlice(kept)
    IN IF \E i \in 1..Len(top) : ~toLowerCase(top[i].category).ok THEN Throw
       ELSE Ok([i \in 1..Len(top) |->
                Recommendation(top[i].product_id,
                               <<"popular", toLowerCase(top[i].category).v>>)])

getFallbackRecommendations(userContext) ==
    IF Len(userContext.categories) > 0
    THEN PreferredBranch(userContext)
    ELSE PopularBranch(userContext)

(***************************************************************************)
(* The backend response: text, JSON and product identifiers                *)
(***************************************************************************)
NumV(n) == [t |-> "num", n |-> n, s |-> <<>>]

StrV(s) == [t |-> "str", n |-> 0, s |-> s]

NaN == [t |-> "nan", n |-> 0, s |-> <<>>]

UndefinedV == [t |-> "undefined", n |-> 0, s |-> <<>>]

Digits == {"0", "1", "2", "3", "4", "5", "6", "7", "8", "9"}

DigitValue(c) ==
    CASE c = "0" -> 0 [] c = "1" -> 1 [] c = "2" -> 2 [] c = "3" -> 3
      [] c = "4" -> 4 [] c = "5" -> 5 [] c = "6" -> 6 [] c = "7" -> 7
      [] c = "8" -> 8 [] OTHER -> 9

RECURSIVE DigitPrefix(_)
\* the longest prefix of a character sequence made of decimal digits
DigitPrefix(s) ==
    IF s = <<>> \/ s[1] \notin Digits THEN <<>>
    ELSE <<s[1]>> \o DigitPrefix(Tail(s))

RECURSIVE DecimalValue(_)
DecimalValue(ds) ==
    IF ds = <<>> THEN 0
    ELSE 10 * DecimalValue(SubSeq(ds, 1, Len(ds) - 1)) + DigitValue(ds[Len(ds)])

RECURSIVE SkipSpaces(_)
SkipSpaces(s) == IF s # <<>> /\ s[1] = " " THEN SkipSpaces(Tail(s)) ELSE s

\* parseInt(s, 10): leading white space is skipped, a sign is accepted, the
\* longest digit prefix is converted; without a digit the result is NaN
parseInt(s) ==
    LET t == SkipSpaces(s)
        neg == t # <<>> /\ t[1] = "-"
        u == IF t # <<>> /\ t[1] \in {"-", "+"} THEN Tail(t) ELSE t
        ds == DigitPrefix(u)
    IN IF ds = <<>> THEN NaN
       ELSE NumV(IF neg THEN 0 - DecimalValue(ds) ELSE DecimalValue(ds))

\* typeof rec.productId === 'string' ? parseInt(rec.productId, 10) : rec.productId
Coerce(productId) ==
    IF productId.t = "str" THEN parseInt(productId.s) ELSE productId

\* !isNaN(rec.productId) && rec.productId > 0, on a coerced identifier
isValidId(productId) == productId.t = "num" /\ productId.n > 0

productExists_Off(userContext, productId) == TRUE

\* userContext.appData.products.some((p) => p.product_id === rec.productId)
productExists(userContext, productId) ==
    /\ productId.t = "num"
    /\ \E i \in 1..Len(userContext.appData.products) :
            userContext.appData.products[i].product_id = productId.n

\* an element of the parsed array: an object with a productId and a reason,
\* or null
Entry(productId, reason) == [null |-> FALSE, productId |-> productId, reason |-> reason]

NullEntry == [null |-> TRUE, productId |-> UndefinedV, reason |-> ""]

JsonArray(items) == [kind |-> "array", items |-> items]

JsonObject == [kind |-> "object", items |-> <<>>]

NoJson == [kind |-> "none", items |-> <<>>]

\* the tokens of a response text
FenceJson == [tok |-> "fence_json", v |-> NoJson]

Fence == [tok |-> "fence", v |-> NoJson]

Space == [tok |-> "space", v |-> NoJson]

Prose == [tok |-> "prose", v |-> NoJson]

Json(v) == [tok |-> "json", v |-> v]

\* text.replace(/(fence)json|(fence)/g, ''), (fence) being three backquotes
StripFences(text) == SelectSeq(text, LAMBDA t : t.tok \notin {"fence_json", "fence"})

RECURSIVE TrimEnd(_)
TrimEnd(text) ==
    IF text # <<>> /\ text[Len(text)].tok = "space"
    THEN TrimEnd(SubSeq(text, 1, Len(text) - 1)) ELSE text

RECURSIVE TrimStart(_)
TrimStart(text) ==
    IF text # <<>> /\ text[1].tok = "space" THEN TrimStart(Tail(text)) ELSE text

\* .trim()
Trim(text) == TrimStart(TrimEnd(text))

\* JSON.parse: the text must be one JSON value, white space around it allowed
JSONparse(text) ==
    LET t == Trim(text)
    IN IF Len(t) = 1 /\ t[1].tok = "json" THEN Ok(t[1].v) ELSE Throw

\* recommendations.map(...).filter(...): throws when the parsed value has no
\* map method or an element is null
validRecommendations(userContext, parsed) ==
    IF parsed.kind # "array" \/ \E i \in 1..Len(parsed.items) : parsed.items[i].null
    THEN Throw
    ELSE LET mapped == [i \in 1..Len(parsed.items) |->
                          [parsed.items[i] EXCEPT !.productId = Coerce(@)]]
             kept == SelectSeq(mapped,
                        LAMBDA rec : isValidId(rec.productId)
                                     /\ productExists(userContext, rec.productId))
         IN Ok([i \in 1..Len(kept) |->
                 Recommendation(kept[i].productId.n, <<"ai", kept[i].reason>>)])

OnParseError_Empty(userContext) == Ok(<<>>)

\* catch (parseError) { ... return getFallbackRecommendations(userContext) }
OnParseError(userContext) == getFallbackRecommendations(userContext)

\* validRecommendations.length > 0 ? validRecommendations : getFallbackRecommendations(userContext)
OnEmpty(userContext) == getFallbackRecommendations(userContext)

\* catch (error) { ... return getFallbackRecommendations(userContext) }
OnBackendError(userContext) == getFallbackRecommendations(userContext)

\* the part of getAIRecommendations that runs once generateContent has
\* settled; reply.kind = "raise" is a rejected call
AIAfterReply(userContext, reply) ==
    IF reply.kind = "raise" THEN OnBackendError(userContext)
    ELSE LET cleanedText == Trim(StripFences(reply.text))
             parsed == JSONparse(cleanedText)
             valid == IF parsed.ok THEN validRecommendations(userContext, parsed.v)
                      ELSE Throw
         IN IF ~valid.ok THEN OnParseError(userContext)
            ELSE IF Len(valid.v) > 0 THEN valid
            ELSE OnEmpty(userContext)

(***************************************************************************)
(* getAppContextWithFallbacks: the context read from the store.  The       *)
(* result is [ok, v, st]: st is the store the call leaves behind (the      *)
(* sample catalog is written before the later reads can throw).            *)
(***************************************************************************)
getAppContextWithFallbacks_NoSample(st) ==
    LET clickedItems == getClickedItems(st)
        cartItems == getCartItems(st)
        mostOrderedItems == getMostOrderedItems(st)
        appData == getRelevantAppData(st)
    IN IF ~clickedItems.ok \/ ~cartItems.ok \/ ~mostOrderedItems.ok \/ ~appData.ok
       THEN [ok |-> FALSE, v |-> EmptyContext, st |-> st]
       ELSE IF ~getUserPreferences(st).ok \/ ~getUserInteractionHistory(st).ok
            THEN [ok |-> FALSE, v |-> EmptyContext, st |-> st]
            ELSE [ok |-> TRUE,
                  v |-> AppContext(appData.v, clickedItems.v, cartItems.v,
                                   mostOrderedItems.v,
                                   getUserPreferredCategories(st).v),
                  st |-> st]

getAppContextWithFallbacks(st) ==
    LET clickedItems == getClickedItems(st)
        cartItems == getCartItems(st)
        mostOrderedItems == getMostOrderedItems(st)
        appData == getRelevantAppData(st)
    IN IF ~clickedItems.ok \/ ~cartItems.ok \/ ~mostOrderedItems.ok \/ ~appData.ok
       THEN [ok |-> FALSE, v |-> EmptyContext, st |-> st]
       ELSE LET productsWithFallback ==
                    IF Len(appData.v) > 0 THEN appData.v ELSE SampleProducts
                st1 == IF Len(appData.v) = 0
                       THEN [st EXCEPT !["appData"] = Val(productsWithFallback)]
                       ELSE st
            IN IF ~getUserPreferences(st1).ok \/ ~getUserInteractionHistory(st1).ok
               THEN [ok |-> FALSE, v |-> EmptyContext, st |-> st1]
               ELSE [ok |-> TRUE,
                     v |-> AppContext(productsWithFallback, clickedItems.v, cartItems.v,
                                      mostOrderedItems.v,
                                      getUserPreferredCategories(st1).v),
                     st |-> st1]

(***************************************************************************)
(* getRecommendations                                                      *)
(***************************************************************************)
NoArg == [given |-> FALSE, ctx |-> EmptyContext]

Given(ctx) == [given |-> TRUE, ctx |-> ctx]

NoReply == [kind |-> "none", text |-> <<>>]

Raise == [kind |-> "raise", text |-> <<>>]

Text(text) == [kind |-> "text", text |-> text]

NoRes ==
    [ op |-> "none", status |-> "none", arg |-> NoArg, used |-> Throw,
      context |-> EmptyContext, recommendations |-> <<>>, type |-> "none",
      calls |-> 0, reply |-> NoReply, cats |-> <<>> ]

NoInteractions_Never(ctx) == FALSE

\* the three interaction lists of a context are all empty
NoInteractions(ctx) ==
    /\ Len(ctx.clickedItems) = 0
    /\ Len(ctx.cartItems) = 0
    /\ Len(ctx.mostOrderedItems) = 0

sampleRecommendations_NoCap(ctx) ==
    LET top == ctx.appData.products
    IN IF \E i \in 1..Len(top) : ~toLowerCase(top[i].category).ok THEN Throw
       ELSE Ok([i \in 1..Len(top) |->
                Recommendation(top[i].product_id,
                               <<"new customers", toLowerCase(top[i].category).v>>)])

\* contextWithFallbacks.appData.products.slice(0, 5).map(...)
sampleRecommendations(ctx) ==
    LET top == SliceFirst(ctx.appData.products, TopProducts)
    IN IF \E i \in 1..Len(top) : ~toLowerCase(top[i].category).ok THEN Throw
       ELSE Ok([i \in 1..Len(top) |->
                Recommendation(top[i].product_id,
                               <<"new customers", toLowerCase(top[i].category).v>>)])

\* the guard of getAIRecommendations taken as passed whatever the start-up did
BackendAvailable_Always == TRUE

\* !(!model || !apiKey): the module obtained a model at start-up
BackendAvailable == model

\* the type of the result built from what getAIRecommendations returned
AIResultType == "ai-powered"

\* a completed call: the store it leaves and the result record
Done(st, r) == [st |-> st, res |-> r]

Returned(arg, used, ctx, recs, type, calls, reply) ==
    [ op |-> "getRecommendations", status |-> "returned", arg |-> arg, used |-> used,
      context |-> ctx, recommendations |-> recs, type |-> type,
      calls |-> calls, reply |-> reply, cats |-> <<>> ]

Rejected(arg, used, calls, reply) ==
    [ op |-> "getRecommendations", status |-> "threw", arg |-> arg, used |-> used,
      context |-> EmptyContext, recommendations |-> <<>>, type |-> "none",
      calls |-> calls, reply |-> reply, cats |-> <<>> ]

\* the catch block of getRecommendations, run on store st
CatchBlock(st, arg, used, calls, reply) ==
    LET fallbackContext == getAppContextWithFallbacks(st)
        recs == getFallbackRecommendations(fallbackContext.v)
    IN IF ~fallbackContext.ok THEN Done(fallbackContext.st, Rejected(arg, used, calls, reply))
       ELSE IF ~recs.ok THEN Done(fallbackContext.st, Rejected(arg, used, calls, reply))
       ELSE Done(fallbackContext.st,
                 Returned(arg, used, fallbackContext.v, recs.v, "fallback", calls, reply))

\* getRecommendations up to its first suspension: the call completes when
\* there is no interaction data or no backend, and otherwise issues the
\* generateContent request and waits
GetRecommendations(arg) ==
    /\ pc = "idle"
    /\ LET built == IF arg.given
                    THEN [ok |-> TRUE, v |-> arg.ctx, st |-> store]
                    ELSE getAppContextWithFallbacks(store)
           ctx == built.v
           used == IF built.ok THEN Ok(ctx) ELSE Throw
           sample == sampleRecommendations(ctx)
           early == getFallbackRecommendations(ctx)
           done ==
               IF ~built.ok THEN CatchBlock(built.st, arg, used, 0, NoReply)
               ELSE IF NoInteractions(ctx)
                    THEN IF sample.ok
                         THEN Done(built.st, Returned(arg, used, ctx, sample.v,
                                                      "fallback", 0, NoReply))
                         ELSE CatchBlock(built.st, arg, used, 0, NoReply)
                    ELSE IF early.ok
                         THEN Done(built.st, Returned(arg, used, ctx, early.v,
                                                      AIResultType, 0, NoReply))
                         ELSE CatchBlock(built.st, arg, used, 0, NoReply)
       IN IF built.ok /\ ~NoInteractions(ctx) /\ BackendAvailable
          THEN /\ pc' = "awaiting"
               /\ call' = [arg |-> arg, ctx |-> ctx, calls |-> 1]
               /\ store' = built.st
               /\ UNCHANGED <<model, res>>
          ELSE /\ store' = done.st
               /\ res' = done.res
               /\ UNCHANGED <<model, pc, call>>

NoCall == [arg |-> NoArg, ctx |-> EmptyContext, calls |-> 0]

\* a rejected request issued once more before giving up
BackendReplies_Retry(reply) ==
    /\ pc = "awaiting"
    /\ IF reply.kind = "raise" /\ call.calls < 2
       THEN /\ call' = [call EXCEPT !.calls = @ + 1]
            /\ UNCHANGED <<store, model, pc, res>>
       ELSE /\ LET ai == AIAfterReply(call.ctx, reply)
                   done == IF ai.ok
                           THEN Done(store, Returned(call.arg, Ok(call.ctx), call.ctx, ai.v,
                                                     AIResultType, call.calls, reply))
                           ELSE CatchBlock(store, call.arg, Ok(call.ctx), call.calls, reply)
               IN /\ store' = done.st
                  /\ res' = done.res
            /\ pc' = "idle"
            /\ call' = NoCall
            /\ UNCHANGED model

\* the generateContent request settles and getRecommendations runs to its end
BackendReplies(reply) ==
    /\ pc = "awaiting"
    /\ LET ai == AIAfterReply(call.ctx, reply)
           done == IF ai.ok
                   THEN Done(store, Returned(call.arg, Ok(call.ctx), call.ctx, ai.v,
                                             AIResultType, call.calls, reply))
                   ELSE CatchBlock(store, call.arg, Ok(call.ctx), call.calls, reply)
       IN /\ store' = done.st
          /\ res' = done.res
    /\ pc' = "idle"
    /\ call' = NoCall
    /\ UNCHANGED model

(***************************************************************************)
(* trackUserInteraction and seedSampleUserData                             *)
(***************************************************************************)
\* every record filed under the click list
KeyOf_Clicks(action) == "clickedItems"

KeyOf(action) ==
    CASE action = "click" -> "clickedItems"
      [] action = "addToCart" -> "cartItems"
      [] OTHER -> "mostOrderedItems"

\* the click list written back without the slice(-50)
Tracked_NoCap(st, action, item) ==
    LET key == KeyOf(action)
        list == ParseItem(st, key, <<>>)
        pushed == Append(list.v, Interaction(item.id, item.category, action))
    IN IF ~list.ok THEN st ELSE [st EXCEPT ![key] = Val(pushed)]

\* the store after trackUserInteraction(action, item); a list that does not
\* parse makes the call throw before anything is written
Tracked(st, action, item) ==
    LET key == KeyOf(action)
        list == ParseItem(st, key, <<>>)
        pushed == Append(list.v, Interaction(item.id, item.category, action))
    IN IF ~list.ok THEN st
       ELSE IF action = "click"
            THEN [st EXCEPT ![key] = Val(SliceLast(pushed, ClickCap))]
            ELSE [st EXCEPT ![key] = Val(pushed)]

trackUserInteraction(action, item) ==
    /\ store' = Tracked(store, action, item)
    /\ UNCHANGED <<model, pc, call, res>>

sampleInteractions ==
    << [id |-> 1, category |-> "Fruits"], [id |-> 3, category |-> "Vegetables"],
       [id |-> 4, category |-> "Dairy"], [id |-> 2, category |-> "Fruits"],
       [id |-> 5, category |-> "Meat"] >>

Seeded(st) ==
    LET c1 == Tracked(st, "click", sampleInteractions[1])
        c2 == Tracked(c1, "click", sampleInteractions[2])
        c3 == Tracked(c2, "click", sampleInteractions[3])
        c4 == Tracked(c3, "click", sampleInteractions[4])
        a1 == Tracked(c4, "addToCart", sampleInteractions[1])
        a2 == Tracked(a1, "addToCart", sampleInteractions[3])
    IN Tracked(a2, "order", sampleInteractions[2])

\* seedSampleUserData: nothing happens when a list cannot be read (the call
\* throws) or when interaction data exists
seedSampleUserData ==
    /\ getClickedItems(store).ok /\ getCartItems(store).ok /\ getMostOrderedItems(store).ok
    /\ Len(getClickedItems(store).v) = 0
    /\ Len(getCartItems(store).v) = 0
    /\ Len(getMostOrderedItems(store).v) = 0
    /\ store' = Seeded(store)
    /\ UNCHANGED <<model, pc, call, res>>

(***************************************************************************)
(* The rate limiters of the generateAIResponse functions                   *)
(***************************************************************************)
\* the modules that keep a lastRequestTime: Dashboards/dev/bot.tsx,
\* Dashboards/therapist/conversation.tsx and the chat page of
\* Gemini/context.ts
Limited == {"bot", "conversation", "chatbot"}

\* the functions that call model.generateContent: the three above, the
\* shopping assistant's generateAIResponse and getAIRecommendations
Callers == Limited \cup {"shopping", "recommendations"}

MIN_REQUEST_INTERVAL(m) ==
    CASE m = "bot" -> MIN_REQUEST_INTERVAL_bot
      [] m = "conversation" -> MIN_REQUEST_INTERVAL_conversation
      [] m = "chatbot" -> MIN_REQUEST_INTERVAL_chatbot

\* Date.now() when the modules load: further from 0 than every interval, so
\* that a first call never waits
Epoch == MIN_REQUEST_INTERVAL_bot + MIN_REQUEST_INTERVAL_conversation

\* no call was made yet: every lastRequestTime is 0
NoLimiter ==
    [ now |-> Epoch, ticks |-> 0,
      last |-> [m \in Limited |-> 0],
      calls |-> <<>>, sent |-> <<>> ]

\* the milliseconds the clock advances by between two events
Delays == {1000}

MinDelay == CHOOSE d \in Delays : \A e \in Delays : d <= e

\* now - lastRequestTime < MIN_REQUEST_INTERVAL
Early(r, m) == m \in Limited /\ r.now - r.last[m] < MIN_REQUEST_INTERVAL(m)

\* an early call resolving its timer at once
waitTime_None(r, m) == 0

\* MIN_REQUEST_INTERVAL - timeSinceLastRequest
waitTime(r, m) == MIN_REQUEST_INTERVAL(m) - (r.now - r.last[m])

\* a call of a function: 'early' tells that it had to wait, 'since' is the
\* lastRequestTime it read on entry, 'wake' the time its timer is due, 'at'
\* the time of its backend request
Call(m, state, early, since, wake, at) ==
    [ caller |-> m, pc |-> state, early |-> early,
      since |-> since, wake |-> wake, at |-> at ]

\* lastRequestTime = Date.now() followed by model.generateContent(prompt)
Issue(r, m) ==
    [r EXCEPT !.last = IF m \in Limited THEN [@ EXCEPT ![m] = r.now] ELSE @,
              !.sent = Append(@, [caller |-> m, at |-> r.now])]

\* a function is entered: without a model it returns its unavailable
\* message; a rate-limited function entered early suspends on its timer;
\* otherwise the request is issued in the same turn
Arrive(m) ==
    /\ Len(rl.calls) < MaxCalls
    /\ IF ~model
       THEN rl' = [rl EXCEPT !.calls = Append(@, Call(m, "unavailable", FALSE, 0, 0, 0))]
       ELSE IF Early(rl, m)
            THEN /\ waitTime(rl, m) <= (MaxTicks - rl.ticks) * MinDelay
                 /\ rl' = [rl EXCEPT !.calls =
                             Append(@, Call(m, "waiting", TRUE, rl.last[m],
                                            rl.now + waitTime(rl, m), 0))]
            ELSE rl' = [Issue(rl, m) EXCEPT !.calls =
                           Append(@, Call(m, "sent", FALSE,
                                          IF m \in Limited THEN rl.last[m] ELSE 0,
                                          rl.now, rl.now))]
    /\ UNCHANGED <<store, model, pc, call, res, log, ui>>

\* the timer of a suspended call fires, at its due time or later: the call
\* resumes, stores the time and issues its request
Wake(i) ==
    /\ i \in 1..Len(rl.calls)
    /\ rl.calls[i].pc = "waiting"
    /\ rl.calls[i].wake <= rl.now
    /\ rl' = [Issue(rl, rl.calls[i].caller) EXCEPT
                 !.calls[i].pc = "sent", !.calls[i].at = rl.now]
    /\ UNCHANGED <<store, model, pc, call, res, log, ui>>

\* time passes
Advance ==
    /\ rl.ticks < MaxTicks
    /\ \E d \in Delays : rl' = [rl EXCEPT !.now = @ + d, !.ticks = @ + 1]
    /\ UNCHANGED <<store, model, pc, call, res, log, ui>>

(***************************************************************************)
(* The shopping assistant (EnhancedChatbot): strings                       *)
(***************************************************************************)
\* the upper-case letters and their lower-case forms
Lowered ==
    "A" :> "a" @@ "B" :> "b" @@ "C" :> "c" @@ "D" :> "d" @@ "E" :> "e" @@
    "F" :> "f" @@ "G" :> "g" @@ "H" :> "h" @@ "I" :> "i" @@ "J" :> "j" @@
    "K" :> "k" @@ "L" :> "l" @@ "M" :> "m" @@ "N" :> "n" @@ "O" :> "o" @@
    "P" :> "p" @@ "Q" :> "q" @@ "R" :> "r" @@ "S" :> "s" @@ "T" :> "t" @@
    "U" :> "u" @@ "V" :> "v" @@ "W" :> "w" @@ "X" :> "x" @@ "Y" :> "y" @@
    "Z" :> "z"

\* String.prototype.toLowerCase on a sequence of characters
lowerCase(s) ==
    [i \in 1..Len(s) |-> IF s[i] \in DOMAIN Lowered THEN Lowered[s[i]] ELSE s[i]]

\* String.prototype.toUpperCase
upperCase(s) ==
    [i \in 1..Len(s) |->
        IF \E c \in DOMAIN Lowered : Lowered[c] = s[i]
        THEN CHOOSE c \in DOMAIN Lowered : Lowered[c] = s[i]
        ELSE s[i]]

\* String.prototype.includes: t occurs in s as a run of consecutive characters
includes(s, t) ==
    \E i \in 0..(Len(s) - Len(t)) : SubSeq(s, i + 1, i + Len(t)) = t

\* String.prototype.startsWith
startsWith(s, t) == Len(t) <= Len(s) /\ SubSeq(s, 1, Len(t)) = t

RECURSIVE DropSpacesEnd(_)
DropSpacesEnd(s) ==
    IF s # <<>> /\ s[Len(s)] = " " THEN DropSpacesEnd(SubSeq(s, 1, Len(s) - 1)) ELSE s

\* String.prototype.trim on a sequence of characters
trim(s) == DropSpacesEnd(SkipSpaces(s))

\* the text of s from position i + 1 on
From(s, i) == SubSeq(s, i + 1, Len(s))

\* the phrases handleQuery looks for
Phrase ==
    [ checkout |-> <<"c", "h", "e", "c", "k", "o", "u", "t">>,
      how_to_buy |-> <<"h", "o", "w", " ", "t", "o", " ", "b", "u", "y">>,
      how_do_i_checkout |->
          <<"h", "o", "w", " ", "d", "o", " ", "i", " ", "c", "h", "e", "c", "k", "o", "u", "t">>,
      show_me_all_stores |->
          <<"s", "h", "o", "w", " ", "m", "e", " ", "a", "l", "l", " ", "s", "t", "o", "r", "e", "s">>,
      show_stores |->
          <<"s", "h", "o", "w", " ", "s", "t", "o", "r", "e", "s">>,
      Show_me_stores |->
          <<"S", "h", "o", "w", " ", "m", "e", " ", "s", "t", "o", "r", "e", "s">>,
      all_stores |-> <<"a", "l", "l", " ", "s", "t", "o", "r", "e", "s">>,
      browse_stores |->
          <<"b", "r", "o", "w", "s", "e", " ", "s", "t", "o", "r", "e", "s">>,
      retry |-> <<"r", "e", "t", "r", "y">>,
      try_again |-> <<"t", "r", "y", " ", "a", "g", "a", "i", "n">>,
      show_me_all_products |->
          <<"s", "h", "o", "w", " ", "m", "e", " ", "a", "l", "l", " ", "p", "r", "o", "d", "u", "c", "t", "s">>,
      all_products |->
          <<"a", "l", "l", " ", "p", "r", "o", "d", "u", "c", "t", "s">>,
      browse_products |->
          <<"b", "r", "o", "w", "s", "e", " ", "p", "r", "o", "d", "u", "c", "t", "s">>,
      search_products |->
          <<"s", "e", "a", "r", "c", "h", " ", "p", "r", "o", "d", "u", "c", "t", "s">>,
      show_me_all_categories |->
          <<"s", "h", "o", "w", " ", "m", "e", " ", "a", "l", "l", " ", "c", "a", "t", "e", "g", "o", "r", "i", "e", "s">>,
      all_categories |->
          <<"a", "l", "l", " ", "c", "a", "t", "e", "g", "o", "r", "i", "e", "s">>,
      browse_categories |->
          <<"b", "r", "o", "w", "s", "e", " ", "c", "a", "t", "e", "g", "o", "r", "i", "e", "s">>,
      popular |-> <<"p", "o", "p", "u", "l", "a", "r">>,
      trending |-> <<"t", "r", "e", "n", "d", "i", "n", "g">>,
      recommend |-> <<"r", "e", "c", "o", "m", "m", "e", "n", "d">>,
      under |-> <<"u", "n", "d", "e", "r">>,
      below |-> <<"b", "e", "l", "o", "w">>,
      less_than |-> <<"l", "e", "s", "s", " ", "t", "h", "a", "n">>,
      cheaper_than |->
          <<"c", "h", "e", "a", "p", "e", "r", " ", "t", "h", "a", "n">>,
      help_me_shop |->
          <<"h", "e", "l", "p", " ", "m", "e", " ", "s", "h", "o", "p">>,
      shop_for_me |->
          <<"s", "h", "o", "p", " ", "f", "o", "r", " ", "m", "e">>,
      how_to_shop |->
          <<"h", "o", "w", " ", "t", "o", " ", "s", "h", "o", "p">>,
      find_store |-> <<"f", "i", "n", "d", " ", "s", "t", "o", "r", "e">>,
      where_to_buy |->
          <<"w", "h", "e", "r", "e", " ", "t", "o", " ", "b", "u", "y">>,
      stores |-> <<"s", "t", "o", "r", "e", "s">>,
      where_can_i_buy |->
          <<"w", "h", "e", "r", "e", " ", "c", "a", "n", " ", "i", " ", "b", "u", "y">>,
      go_to_cart |-> <<"g", "o", " ", "t", "o", " ", "c", "a", "r", "t">>,
      view_my_cart |->
          <<"v", "i", "e", "w", " ", "m", "y", " ", "c", "a", "r", "t">>,
      my_cart |-> <<"m", "y", " ", "c", "a", "r", "t">>,
      go_to_checkout |->
          <<"g", "o", " ", "t", "o", " ", "c", "h", "e", "c", "k", "o", "u", "t">>,
      view_checkout |->
          <<"v", "i", "e", "w", " ", "c", "h", "e", "c", "k", "o", "u", "t">>,
      search_specific_product |->
          <<"s", "e", "a", "r", "c", "h", " ", "s", "p", "e", "c", "i", "f", "i", "c", " ", "p", "r", "o", "d", "u", "c", "t">>,
      do_you_have_this_product |->
          <<"d", "o", " ", "y", "o", "u", " ", "h", "a", "v", "e", " ", "t", "h", "i", "s", " ", "p", "r", "o", "d", "u", "c", "t">>,
      find |-> <<"f", "i", "n", "d">>,
      search |-> <<"s", "e", "a", "r", "c", "h">>,
      show_me |-> <<"s", "h", "o", "w", " ", "m", "e">>,
      do_you_have |->
          <<"d", "o", " ", "y", "o", "u", " ", "h", "a", "v", "e">>,
      what_is |-> <<"w", "h", "a", "t", " ", "i", "s">>,
      which_is |-> <<"w", "h", "i", "c", "h", " ", "i", "s">>,
      where_is |-> <<"w", "h", "e", "r", "e", " ", "i", "s">> ]

\* /(?:under|below|less than|cheaper than)\s*(?:ksh?\s*)?(\d+)/i applied at
\* position i + 1 of s: the digits it captures, or none
PriceDigitsAt(s, i) ==
    LET r == From(s, i)
        kws == {kw \in {Phrase.under, Phrase.below, Phrase.less_than, Phrase.cheaper_than} : startsWith(r, kw)}
    IN IF kws = {} THEN <<>>
       ELSE LET kw == CHOOSE k \in kws : TRUE
                a == SkipSpaces(From(r, Len(kw)))
                b == IF startsWith(a, <<"k", "s", "h">>) THEN SkipSpaces(From(a, 3))
                     ELSE IF startsWith(a, <<"k", "s">>) THEN SkipSpaces(From(a, 2))
                     ELSE a
            IN DigitPrefix(b)

\* lowerQuery.match(...): the leftmost match, or null
priceMatch(s) ==
    LET at == {i \in 0..Len(s) : PriceDigitsAt(s, i) # <<>>}
    IN IF at = {} THEN [found |-> FALSE, digits |-> <<>>]
       ELSE [found |-> TRUE,
             digits |-> PriceDigitsAt(s, CHOOSE i \in at : \A j \in at : i <= j)]

\* parseFloat of a price text written without a fraction
parseFloat(s) ==
    IF DigitPrefix(SkipSpaces(s)) = <<>> THEN NaN
    ELSE NumV(DecimalValue(DigitPrefix(SkipSpaces(s))))

\* /^(?:find|search|show me|do you have|what is|which is|where is)\s*(.*)$/i
\* on the trimmed query: the product name it captures, or the whole query
\* when it does not match
productName(normalQuery) ==
    LET low == lowerCase(normalQuery)
        heads == <<Phrase.find, Phrase.search, Phrase.show_me, Phrase.do_you_have, Phrase.what_is, Phrase.which_is, Phrase.where_is>>
        hit == {k \in 1..Len(heads) : startsWith(low, heads[k])}
    IN IF hit = {} THEN normalQuery
       ELSE LET k == CHOOSE x \in hit : \A y \in hit : x <= y
            IN trim(From(normalQuery, Len(heads[k])))

(***************************************************************************)
(* The shopping assistant (EnhancedChatbot): state and handleQuery         *)
(***************************************************************************)
\* products.slice(0, 6)
ShownProducts == 6

\* the time the clocks of the chat components start from
ClockStart == 1000

\* a chat message: the id, the type and the content, which is the text of a
\* user message and the name of the response of a bot message
ChatMessage(id, type, content, products) ==
    [id |-> id, type |-> type, content |-> content, products |-> products]

NoPending == [await |-> "none"]

\* the component before it is mounted
NoShop ==
    [ mounted |-> FALSE, dataLoaded |-> FALSE, isLoading |-> FALSE,
      loadingError |-> FALSE, isOpen |-> FALSE, model |-> FALSE,
      categories |-> <<>>, products |-> <<>>, stores |-> 0,
      messages |-> <<>>, loads |-> 0, started |-> 0, pending |-> NoPending,
      nav |-> <<>>, now |-> ClockStart, ticks |-> 0 ]

\* the result of handleQuery, or the call it is suspended at: the response,
\* the number of products, the navigation callbacks invoked so far (with
\* the category for onNavigateToCategory) and whether setIsOpen(false) ran
QueryResult(response, products, nav, close) ==
    [await |-> "none", response |-> response, products |-> products,
     nav |-> nav, close |-> close]

QueryAwaits(what, nav, close) ==
    [await |-> what, response |-> "", products |-> 0, nav |-> nav, close |-> close]

\* the products priced at most maxPrice
priceFilteredProducts(sh, maxPrice) ==
    SelectSeq(sh.products,
              LAMBDA p : parseFloat(p.price).t = "num" /\ parseFloat(p.price).n <= maxPrice)

\* categories.find(...): the indexes of the categories a query matches
matchedCategories(sh, lowerQuery) ==
    {k \in 1..Len(sh.categories) :
        LET cat == sh.categories[k]
        IN \/ includes(lowerCase(cat.name), lowerQuery)
           \/ includes(lowerQuery, lowerCase(cat.name))
           \/ /\ cat.description # <<>>
              /\ includes(lowerCase(cat.description), lowerQuery)}

\* the products whose name contains the product name searched for
foundProducts(sh, name) ==
    SelectSeq(sh.products,
              LAMBDA p : includes(lowerCase(p.name), lowerCase(name)))

\* handleQuery up to its return or its first await, the branches in the
\* order of the code
handleQuery(sh, query) ==
    LET lowerQuery == lowerCase(query)
        normalQuery == trim(query)
        has(t) == includes(lowerQuery, t)
        \* the branch of the products queries navigates, closes the window
        \* and goes on to the next branches
        toProducts == \/ has(Phrase.show_me_all_products) \/ has(Phrase.all_products)
                      \/ has(Phrase.browse_products) \/ has(Phrase.search_products)
        nav == IF toProducts THEN <<"category0">> ELSE <<>>
        price == priceMatch(lowerQuery)
        cheap == priceFilteredProducts(sh, DecimalValue(price.digits))
        searches == /\ Len(normalQuery) > 2
                    /\ lowerQuery \notin {Phrase.search_specific_product, Phrase.do_you_have_this_product}
    IN  IF ~sh.dataLoaded
        THEN QueryResult("stillLoading", 0, <<>>, FALSE)
        ELSE IF has(Phrase.checkout) \/ has(Phrase.how_to_buy) \/ has(Phrase.how_do_i_checkout)
        THEN QueryResult("howToCheckout", 0, <<>>, FALSE)
        ELSE IF \/ has(Phrase.show_me_all_stores) \/ has(Phrase.show_stores) \/ has(Phrase.Show_me_stores)
                \/ has(Phrase.all_stores) \/ has(Phrase.browse_stores)
        THEN IF sh.stores = 0
             THEN QueryResult("noStores", 0, <<>>, FALSE)
             ELSE QueryResult("toStores", 0, <<"stores">>, TRUE)
        ELSE IF has(Phrase.retry) \/ has(Phrase.try_again)
        THEN QueryAwaits("reload", <<>>, FALSE)
        ELSE IF \/ has(Phrase.show_me_all_categories) \/ has(Phrase.all_categories)
                \/ has(Phrase.browse_categories)
        THEN IF sh.categories = <<>>
             THEN QueryResult("noCategories", 0, nav, toProducts)
             ELSE QueryResult("categories", 0, nav, toProducts)
        ELSE IF has(Phrase.popular) \/ has(Phrase.trending) \/ has(Phrase.recommend)
        THEN QueryAwaits("popular", nav, toProducts)
        ELSE IF price.found
        THEN IF cheap = <<>>
             THEN QueryResult("noneUnder", 0, nav, toProducts)
             ELSE QueryResult("under", Min(Len(cheap), ShownProducts), nav, toProducts)
        ELSE IF matchedCategories(sh, lowerQuery) # {}
        THEN QueryAwaits("category", nav, toProducts)
        ELSE IF has(Phrase.help_me_shop) \/ has(Phrase.shop_for_me) \/ has(Phrase.how_to_shop)
        THEN QueryResult("helpShop", 0, nav, toProducts)
        ELSE IF \/ has(Phrase.find_store) \/ has(Phrase.where_to_buy) \/ has(Phrase.stores)
                \/ has(Phrase.where_can_i_buy)
        THEN QueryResult("findStores", 0, nav, toProducts)
        ELSE IF has(Phrase.go_to_cart) \/ has(Phrase.view_my_cart) \/ has(Phrase.my_cart)
        THEN QueryResult("toCart", 0, nav \o <<"cart">>, TRUE)
        ELSE IF has(Phrase.go_to_checkout) \/ has(Phrase.view_checkout)
        THEN QueryResult("toCheckout", 0, nav \o <<"checkout">>, toProducts)
        ELSE IF searches /\ foundProducts(sh, productName(normalQuery)) # <<>>
        THEN QueryResult("found",
                         Min(Len(foundProducts(sh, productName(normalQuery))),
                             ShownProducts),
                         nav, toProducts)
        ELSE IF searches
        THEN QueryAwaits("search", nav, toProducts)
        ELSE QueryAwaits("fallback", nav, toProducts)

\* what the backend can answer to a call that lists products: an error, or
\* a number of products
ApiAnswers == {[ok |-> FALSE, n |-> 0], [ok |-> TRUE, n |-> 0],
               [ok |-> TRUE, n |-> 2], [ok |-> TRUE, n |-> ShownProducts + 1]}

\* generateAIResponse: the text of the model, or one of the two apologies
AIResponses(sh) == IF sh.model THEN {"aiText", "aiTrouble"} ELSE {"aiUnable"}

\* the general fallback: getAllProducts, then generateAIResponse
Fallbacks(sh) ==
    {[response |-> text,
      products |-> IF a.ok THEN Min(a.n, ShownProducts) ELSE 0, loaded |-> FALSE] :
        a \in ApiAnswers, text \in AIResponses(sh)}

\* the results handleQuery can resume to from an await; loaded tells that
\* setDataLoaded(true) ran
Resumes(sh, what) ==
    CASE what = "reload" ->
            {[response |-> "reloaded", products |-> 0, loaded |-> TRUE],
             [response |-> "reloadFailed", products |-> 0, loaded |-> FALSE]}
      [] what = "popular" ->
            {[response |-> IF ~a.ok THEN "popularError"
                           ELSE IF a.n = 0 THEN "noPopular" ELSE "popular",
              products |-> IF a.ok THEN Min(a.n, ShownProducts) ELSE 0,
              loaded |-> FALSE] : a \in ApiAnswers}
      [] what = "category" ->
            {[response |-> IF ~a.ok THEN "categoryError"
                           ELSE IF a.n = 0 THEN "categoryEmpty" ELSE "categoryProducts",
              products |-> IF a.ok THEN Min(a.n, ShownProducts) ELSE 0,
              loaded |-> FALSE] : a \in ApiAnswers}
      [] what = "search" ->
            {[response |-> "foundApi", products |-> Min(a.n, ShownProducts),
              loaded |-> FALSE] : a \in {x \in ApiAnswers : x.ok /\ x.n > 0}}
            \cup Fallbacks(sh)
      [] OTHER -> Fallbacks(sh)

(***************************************************************************)
(* The AI chat components (ChatBotPage, Conversation, SessionChat) and the *)
(* demo widget (ChatBot): state                                            *)
(***************************************************************************)
\* a message of a chat component; conversation is the number of the
\* conversation the message, or the message it replies to, was sent in
Message(id, text, sender, conversation) ==
    [id |-> id, text |-> text, sender |-> sender, conversation |-> conversation]

\* a chat component before it is mounted. calls are the generateAIResponse
\* calls under way, sends and replies count the user messages accepted and
\* the bot messages appended
NoChat ==
    [ mounted |-> FALSE, component |-> "none", model |-> FALSE,
      messages |-> <<>>, isTyping |-> FALSE, calls |-> <<>>,
      conversation |-> 0, sends |-> 0, replies |-> 0, resets |-> 0,
      now |-> ClockStart, ticks |-> 0 ]

\* the demo widget before it is mounted; timers are the due times of the
\* pending reply timers, in the order they were set
NoDemo ==
    [ mounted |-> FALSE, messages |-> <<>>, isTyping |-> FALSE,
      timers |-> <<>>, sends |-> 0, replies |-> 0,
      now |-> ClockStart, ticks |-> 0 ]

InitAux == log = <<>> /\ rl = NoLimiter /\ shop = NoShop /\ chat = NoChat /\ demo = NoDemo

(***************************************************************************)
(* Inputs of the model                                                     *)
(***************************************************************************)
Actions == {"click", "addToCart", "order"}

\* a catalog larger than the number of products recommended, not in
\* identifier order
BigCatalog ==
    << Product(7, "Fruits"), Product(1, "Fruits"), Product(2, "Fruits"),
       Product(3, "Vegetables"), Product(4, "Fruits"), Product(5, "Fruits"),
       Product(6, "Fruits") >>

\* a catalog whose first product has no category
MalformedCatalog == << Product(1, Undefined), Product(2, "Fruits") >>

HistLen(st) ==
    Len(st["clickedItems"].v) + Len(st["cartItems"].v) + Len(st["mostOrderedItems"].v)

FreshStore == [key \in Keys |-> Absent]

\* the responses of the backend
ReplyEntries ==
    { Entry(NumV(2), "x"), Entry(StrV(<<"2">>), "x"), Entry(NumV(999), "y"),
      Entry(StrV(<<"7", "x">>), "x"), Entry(StrV(<<"x">>), "x"),
      Entry(NumV(0), "x"), NullEntry }

Payloads == {JsonArray(items) : items \in SeqsUpTo(ReplyEntries, MaxResp)} \cup {JsonObject}

Replies ==
    {Raise, Text(<<>>), Text(<<Prose>>),
     Text(<<Prose, Json(JsonArray(<<Entry(NumV(2), "x")>>))>>)}
    \cup {Text(<<Json(p)>>) : p \in Payloads}
    \cup {Text(<<FenceJson, Space, Json(p), Space, Fence>>) : p \in Payloads}

(***************************************************************************)
(* Spec: a session over the persisted store                                *)
(***************************************************************************)
Items == {[id |-> 1, category |-> "Fruits"], [id |-> 3, category |-> ""]}

InitStores ==
    {[FreshStore EXCEPT !["appData"] = a, ![b] = Bad] :
        a \in {Absent, Val(BigCatalog), Val(MalformedCatalog)},
        b \in {"clickedItems", "appData", "userPreferences"}}
    \cup {[FreshStore EXCEPT !["appData"] = a] :
        a \in {Absent, Val(BigCatalog), Val(MalformedCatalog)}}

SessionReplies ==
    { Raise, Text(<<Prose>>),
      Text(<<FenceJson, Json(JsonArray(<<Entry(StrV(<<"2">>), "x"), Entry(NumV(999), "y")>>)), Fence>>),
      Text(<<Json(JsonArray(<<Entry(NumV(999), "y")>>))>>) }

Init ==
    /\ store \in InitStores
    /\ model \in BOOLEAN
    /\ pc = "idle"
    /\ call = NoCall
    /\ res = NoRes
    /\ InitAux

Track ==
    \E action \in Actions, item \in Items :
        /\ HistLen(store) < MaxHist
        /\ trackUserInteraction(action, item)
        /\ UNCHANGED aux

Request == GetRecommendations(NoArg) /\ UNCHANGED aux

Reply == \E reply \in SessionReplies : BackendReplies(reply) /\ UNCHANGED aux

Seed == seedSampleUserData /\ UNCHANGED aux

Next == Track \/ Seed \/ Request \/ Reply

Spec == Init /\ [][Next]_vars

(***************************************************************************)
(* SpecCtx: getRecommendations and getFallbackRecommendations applied      *)
(* once to a context supplied by the caller                                *)
(***************************************************************************)
\* the records of a supplied context; the category of a record is a copy
\* that need not agree with the catalog
CtxItems ==
    { [id |-> 1, category |-> "Fruits"], [id |-> 3, category |-> "Vegetables"],
      [id |-> 2, category |-> "Dairy"] }

CtxCatalogs == {<<>>, SampleProducts, BigCatalog, MalformedCatalog}

CtxCategories == {<<>>, <<"Fruits">>, <<"Vegetables", "Fruits">>}

Records(action, n) ==
    {[i \in 1..Len(s) |-> Interaction(s[i].id, s[i].category, action)] :
        s \in SeqsUpTo(CtxItems, n)}

\* three clicks on a Fruits product over the sample catalog
FruitsContext ==
    AppContext(SampleProducts,
               [i \in 1..3 |-> Interaction(1, "Fruits", "click")], <<>>, <<>>,
               <<"Fruits">>)

\* the contexts with at most MaxCtxHist records in all
Contexts ==
    UNION { UNION { {AppContext(p, cl, ca, mo, cats) :
                        p \in CtxCatalogs,
                        mo \in Records("order", MaxCtxHist - Len(cl) - Len(ca)),
                        cats \in CtxCategories} :
                    ca \in Records("addToCart", MaxCtxHist - Len(cl)) } :
            cl \in Records("click", MaxCtxHist) }

BoundedContexts ==
    {c \in Contexts :
        Len(c.clickedItems) + Len(c.cartItems) + Len(c.mostOrderedItems) <= MaxCtxHist}
    \cup {FruitsContext}

\* an empty store, and the store of a returning user
CtxStores ==
    { FreshStore,
      [FreshStore EXCEPT !["appData"] = Val(BigCatalog),
                         !["clickedItems"] = Val(<<Interaction(1, "Fruits", "click")>>)] }

\* getFallbackRecommendations applied to a context
ApplyFallback(ctx) ==
    /\ pc = "idle"
    /\ LET recs == getFallbackRecommendations(ctx)
       IN res' = [ op |-> "getFallbackRecommendations",
                   status |-> IF recs.ok THEN "returned" ELSE "threw",
                   arg |-> Given(ctx), used |-> Ok(ctx), context |-> ctx,
                   recommendations |-> recs.v, type |-> "none",
                   calls |-> 0, reply |-> NoReply, cats |-> <<>> ]
    /\ UNCHANGED <<store, model, pc, call>>

InitCtx ==
    /\ store \in CtxStores
    /\ model \in BOOLEAN
    /\ pc = "idle"
    /\ call = NoCall
    /\ res = NoRes
    /\ InitAux

\* the responses a supplied context is tried with: a rejected call, texts
\* that do not parse, a value that is no array, arrays of which nothing
\* survives, and arrays with surviving entries
CtxReplies ==
    { Raise, Text(<<>>), Text(<<Prose>>), Text(<<Json(JsonObject)>>),
      Text(<<Json(JsonArray(<<Entry(NumV(999), "y")>>))>>),
      Text(<<Json(JsonArray(<<NullEntry, Entry(NumV(2), "x")>>))>>),
      Text(<<Json(JsonArray(<<Entry(NumV(2), "x")>>))>>),
      Text(<<FenceJson, Space,
             Json(JsonArray(<<Entry(StrV(<<"2">>), "x"), Entry(NumV(999), "y")>>)),
             Space, Fence>>) }

RequestCtx ==
    \E ctx \in BoundedContexts :
        res = NoRes /\ GetRecommendations(Given(ctx)) /\ UNCHANGED aux

ReplyCtx == \E reply \in CtxReplies : BackendReplies(reply) /\ UNCHANGED aux

FallbackCtx ==
    \E ctx \in BoundedContexts : res = NoRes /\ ApplyFallback(ctx) /\ UNCHANGED aux

NextCtx == RequestCtx \/ ReplyCtx \/ FallbackCtx

SpecCtx == InitCtx /\ [][NextCtx]_vars

(***************************************************************************)
(* SpecAI: getRecommendations applied once, the backend answering with     *)
(* every response of the model                                             *)
(***************************************************************************)
AIContexts ==
    {AppContext(p, cl, <<>>, <<>>, cats) :
        p \in CtxCatalogs,
        cl \in {<<>>, <<Interaction(1, "Fruits", "click")>>},
        cats \in {<<>>, <<"Fruits">>}}

RequestAI ==
    \E ctx \in AIContexts : res = NoRes /\ GetRecommendations(Given(ctx)) /\ UNCHANGED aux

\* a response that names six products of the large catalog
SixEntries ==
    Text(<<Json(JsonArray(<< Entry(NumV(2), "x"), Entry(NumV(3), "x"),
                             Entry(NumV(4), "x"), Entry(NumV(5), "x"),
                             Entry(NumV(6), "x"), Entry(NumV(7), "x") >>))>>)

ReplyAI ==
    \E reply \in Replies \cup {SixEntries} : BackendReplies(reply) /\ UNCHANGED aux

NextAI == RequestAI \/ ReplyAI

SpecAI == InitCtx /\ [][NextAI]_vars

(***************************************************************************)
(* SpecCat: getUserPreferredCategories applied to the tracked history      *)
(***************************************************************************)
CatItems ==
    {[id |-> 1, category |-> c] : c \in {"Meat", "2", "Grains", ""}}

LongHistory ==
    << Interaction(1, "Fruits", "click"), Interaction(2, "10", "click"),
       Interaction(3, "Vegetables", "click"), Interaction(4, "Dairy", "click") >>

CatBases == {<<>>, LongHistory}

\* the number of interactions tracked since the initial state
TrackedSince(st) ==
    IF Len(st["clickedItems"].v) >= Len(LongHistory)
       /\ SubSeq(st["clickedItems"].v, 1, Len(LongHistory)) = LongHistory
    THEN HistLen(st) - Len(LongHistory)
    ELSE HistLen(st)

\* getUserPreferredCategories applied to the store
ApplyCategories ==
    /\ pc = "idle"
    /\ LET cats == getUserPreferredCategories(store)
       IN res' = [ op |-> "getUserPreferredCategories",
                   status |-> IF cats.ok THEN "returned" ELSE "threw",
                   arg |-> NoArg, used |-> Throw,
                   context |-> AppContext(<<>>, getClickedItems(store).v,
                                          getCartItems(store).v,
                                          getMostOrderedItems(store).v, <<>>),
                   recommendations |-> <<>>, type |-> "none",
                   calls |-> 0, reply |-> NoReply, cats |-> cats.v ]
    /\ UNCHANGED <<store, model, pc, call>>

InitCat ==
    /\ \E base \in CatBases : store = [FreshStore EXCEPT !["clickedItems"] = Val(base)]
    /\ model = FALSE
    /\ pc = "idle"
    /\ call = NoCall
    /\ res = NoRes
    /\ InitAux

TrackCat ==
    \E action \in Actions, item \in CatItems :
        /\ res = NoRes
        /\ TrackedSince(store) < MaxCatHist
        /\ trackUserInteraction(action, item)
        /\ UNCHANGED aux

ScoreCat == ApplyCategories /\ UNCHANGED aux

NextCat == TrackCat \/ ScoreCat

SpecCat == InitCat /\ [][NextCat]_vars

(***************************************************************************)
(* SpecEmpty: getRecommendations applied once where the catalog is empty,  *)
(* in a supplied context or in the store                                   *)
(***************************************************************************)
EmptyContexts == {c \in BoundedContexts : c.appData.products = <<>>}

\* stores without products: nothing stored, an empty product list stored,
\* a user with one click, and a store whose preferences cannot be read
EmptyStores ==
    { FreshStore,
      [FreshStore EXCEPT !["appData"] = Val(<<>>)],
      [FreshStore EXCEPT !["clickedItems"] = Val(<<Interaction(1, "Fruits", "click")>>)],
      [FreshStore EXCEPT !["appData"] = Val(<<>>), !["userPreferences"] = Bad] }

InitEmpty ==
    /\ store \in EmptyStores
    /\ model \in BOOLEAN
    /\ pc = "idle"
    /\ call = NoCall
    /\ res = NoRes
    /\ InitAux

RequestEmpty ==
    \E ctx \in EmptyContexts :
        res = NoRes /\ GetRecommendations(Given(ctx)) /\ UNCHANGED aux

RequestStore == res = NoRes /\ GetRecommendations(NoArg) /\ UNCHANGED aux

NextEmpty == RequestEmpty \/ RequestStore \/ ReplyCtx

SpecEmpty == InitEmpty /\ [][NextEmpty]_vars

(***************************************************************************)
(* SpecTrack: trackUserInteraction and seedSampleUserData from an empty     *)
(* store, up to histories past the cap of the click list; every completed  *)
(* call is recorded in log                                                 *)
(***************************************************************************)
\* the call completed: its list could be read
Completes(st, action) == ParseItem(st, KeyOf(action), <<>>).ok

TrackItems == {[id |-> 101, category |-> "Fruits"], [id |-> 102, category |-> "Dairy"]}

\* the calls of SpecTrack made so far on the items of TrackItems
LaterCalls == Len(SelectSeq(log, LAMBDA r : r.id \in {item.id : item \in TrackItems}))

InitTrack ==
    /\ store = FreshStore
    /\ model \in BOOLEAN
    /\ pc = "idle"
    /\ call = NoCall
    /\ res = NoRes
    /\ InitAux

\* the user browses: a click on one more product, until the click list has
\* gone past its cap; the other calls follow the browsing
Browse ==
    /\ LaterCalls = 0
    /\ Len(SelectSeq(log, LAMBDA r : r.action = "click")) < ClickCap + 2
    /\ LET item == [id |-> Len(log) + 1, category |-> "Fruits"]
       IN /\ trackUserInteraction("click", item)
          /\ log' = IF Completes(store, "click")
                    THEN Append(log, Interaction(item.id, item.category, "click"))
                    ELSE log
    /\ UNCHANGED <<rl, ui>>

TrackLogged ==
    \E action \in Actions, item \in TrackItems :
        /\ LaterCalls < MaxTrack
        /\ trackUserInteraction(action, item)
        /\ log' = IF Completes(store, action)
                  THEN Append(log, Interaction(item.id, item.category, action))
                  ELSE log
        /\ UNCHANGED <<rl, ui>>

\* the calls seedSampleUserData makes, in order
SeedCalls ==
    << Interaction(1, "Fruits", "click"), Interaction(3, "Vegetables", "click"),
       Interaction(4, "Dairy", "click"), Interaction(2, "Fruits", "click"),
       Interaction(1, "Fruits", "addToCart"), Interaction(4, "Dairy", "addToCart"),
       Interaction(3, "Vegetables", "order") >>

SeedLogged ==
    /\ seedSampleUserData
    /\ log' = log \o SeedCalls
    /\ UNCHANGED <<rl, ui>>

NextTrack == Browse \/ TrackLogged \/ SeedLogged

SpecTrack == InitTrack /\ [][NextTrack]_vars

(***************************************************************************)
(* SpecRate: calls of the five functions that reach the backend, arriving  *)
(* at any time; SpecRateFair: calls of the three rate-limited functions,   *)
(* with time passing and due timers firing                                 *)
(***************************************************************************)
InitRate ==
    /\ store = FreshStore
    /\ model \in BOOLEAN
    /\ pc = "idle"
    /\ call = NoCall
    /\ res = NoRes
    /\ InitAux

Arrival == \E m \in Callers : Arrive(m)

TimerFires == \E i \in 1..MaxCalls : Wake(i)

NextRate == Arrival \/ TimerFires \/ Advance

SpecRate == InitRate /\ [][NextRate]_vars

\* the three rate-limited functions alone
ArrivalLimited == \E m \in Limited : Arrive(m)

NextLimited == ArrivalLimited \/ TimerFires \/ Advance

\* the event loop: the clock does not stop and a due timer is run
SpecRateFair ==
    /\ InitRate /\ [][NextLimited]_vars
    /\ WF_vars(Advance)
    /\ WF_vars(TimerFires)

(***************************************************************************)
(* Properties                                                              *)
(***************************************************************************)
IsResult == res.op = "getRecommendations" /\ res.status = "returned"

\* the three interaction streams of a context, concatenated
Streams(ctx) == ctx.clickedItems \o ctx.cartItems \o ctx.mostOrderedItems

CatalogIds(ctx) ==
    {ctx.appData.products[i].product_id : i \in 1..Len(ctx.appData.products)}

RecIds(recs) == [i \in 1..Len(recs) |-> recs[i].productId]

\* the backend answered with a text that parses and validation of it kept
\* at least one entry
AIListKept(r) ==
    /\ r.reply.kind = "text"
    /\ r.used.ok
    /\ LET parsed == JSONparse(Trim(StripFences(r.reply.text)))
       IN /\ parsed.ok
          /\ validRecommendations(r.used.v, parsed.v).ok
          /\ Len(validRecommendations(r.used.v, parsed.v).v) > 0

\* C1: a result is tagged 'ai-powered' only if the backend response was
\* parsed and validation kept at least one entry; every other result is
\* tagged 'fallback'.
C1_Provenance ==
    IsResult =>
        /\ res.type \in {"ai-powered", "fallback"}
        /\ res.type = "ai-powered" => AIListKept(res)
        /\ ~AIListKept(res) => res.type = "fallback"

\* C2: every recommendation of a result names a product of the catalog of
\* that same result.
C2_InCatalog ==
    IsResult =>
        \A i \in 1..Len(res.recommendations) :
            res.recommendations[i].productId \in CatalogIds(res.context)

\* an AI entry for an unknown product was answered and an AI list returned
C2_Witness ==
    /\ IsResult
    /\ AIListKept(res)
    /\ \E i \in 1..Len(res.reply.text) :
          /\ res.reply.text[i].tok = "json"
          /\ \E j \in 1..Len(res.reply.text[i].v.items) :
                res.reply.text[i].v.items[j] = Entry(NumV(999), "y")
    /\ Len(res.recommendations) > 0

\* C3: no getRecommendations call ends with an exception.
C3_NoException ==
    res.op = "getRecommendations" => res.status # "threw"

\* C4: with interaction history, when the backend call raises, or its text
\* does not parse, or no entry survives validation, the list returned is the
\* list getFallbackRecommendations returns for the same context.
C4_FallsBack ==
    ( /\ IsResult
      /\ res.used.ok
      /\ Len(Streams(res.used.v)) > 0
      /\ res.reply.kind \in {"raise", "text"}
      /\ ~AIListKept(res)
      /\ getFallbackRecommendations(res.used.v).ok )
    => res.recommendations = getFallbackRecommendations(res.used.v).v

\* an unparsable response was answered with a non-empty fallback list
C4_Witness ==
    /\ IsResult
    /\ res.reply.kind = "text"
    /\ ~JSONparse(Trim(StripFences(res.reply.text))).ok
    /\ Len(Streams(res.used.v)) > 0
    /\ Len(res.recommendations) > 0
    /\ res.recommendations = getFallbackRecommendations(res.used.v).v

\* C5: a result whose context has no interactions holds the first
\* min(5, catalog size) products of the catalog, in catalog order, and is
\* tagged 'fallback'.
C5_ColdStart ==
    (IsResult /\ Len(Streams(res.context)) = 0) =>
        LET products == res.context.appData.products
        IN /\ res.type = "fallback"
           /\ Len(res.recommendations) = Min(5, Len(products))
           /\ \A i \in 1..Len(res.recommendations) :
                 res.recommendations[i].productId = products[i].product_id

\* the scenario of the 5 sample products, with a model configured
C5_Witness ==
    /\ IsResult
    /\ Len(Streams(res.context)) = 0
    /\ res.context.appData.products = SampleProducts
    /\ RecIds(res.recommendations) = <<1, 2, 3, 4, 5>>
    /\ res.type = "fallback"
    /\ model

\* C6: a call whose context has no interactions never issues a backend
\* request, with or without a configured model.
C6_NoBackendCall ==
    /\ pc = "awaiting" => Len(Streams(call.ctx)) > 0
    /\ ( /\ res.op = "getRecommendations"
         /\ res.used.ok
         /\ Len(Streams(res.used.v)) = 0 ) => res.calls = 0

\* a call without interactions completed while a model is configured
C6_Witness ==
    /\ model
    /\ IsResult
    /\ res.used.ok
    /\ Len(Streams(res.used.v)) = 0
    /\ res.calls = 0

\* C7: getUserPreferredCategories returns at most 6 labels, none twice.
C7_AtMostSixDistinct ==
    res.op = "getUserPreferredCategories" =>
        /\ Len(res.cats) <= 6
        /\ \A i, j \in 1..Len(res.cats) : i # j => res.cats[i] # res.cats[j]

\* the history holds more than 6 categories and 6 were returned
C7_Witness ==
    /\ res.op = "getUserPreferredCategories"
    /\ Cardinality({Streams(res.context)[i].category : i \in 1..Len(Streams(res.context))}
                   \ {"", Undefined}) > 6
    /\ Len(res.cats) = 6

\* the ranking of the categories of an interaction list: descending count,
\* equal counts by first occurrence, the first 6
IsRanking(out, all) ==
    LET idx == {i \in 1..Len(all) : all[i].category \notin {"", Undefined}}
        distinct == {all[i].category : i \in idx}
        count(c) == Cardinality({i \in idx : all[i].category = c})
        first(c) == CHOOSE i \in idx :
                        /\ all[i].category = c
                        /\ \A j \in idx : all[j].category = c => i <= j
        Before(a, b) == \/ count(a) > count(b)
                        \/ count(a) = count(b) /\ first(a) < first(b)
    IN /\ Len(out) = Min(6, Cardinality(distinct))
       /\ \A k \in 1..Len(out) :
             /\ out[k] \in distinct
             /\ Cardinality({d \in distinct : Before(d, out[k])}) = k - 1

\* C8: getUserPreferredCategories returns the categories of clicked ++ cart
\* ++ ordered by descending count, equal counts in order of first
\* occurrence, truncated to 6, for every label.
C8_Ranking ==
    (res.op = "getUserPreferredCategories" /\ res.status = "returned") =>
        IsRanking(res.cats, Streams(res.context))

\* the first 5 catalog products, in catalog order, that were not interacted
\* with and, when there are preferred categories, belong to one of them
IsFirstEligible(recs, ctx) ==
    LET products == ctx.appData.products
        interacted == {Streams(ctx)[i].id : i \in 1..Len(Streams(ctx))}
        Elig == {i \in 1..Len(products) :
                    /\ products[i].product_id \notin interacted
                    /\ ctx.categories # <<>> =>
                          \E k \in 1..Len(ctx.categories) :
                              ctx.categories[k] = products[i].category}
    IN /\ Len(recs) = Min(5, Cardinality(Elig))
       /\ \A k \in 1..Len(recs) :
             \E i \in Elig :
                /\ Cardinality({j \in Elig : j < i}) = k - 1
                /\ recs[k].productId = products[i].product_id

\* C9: getFallbackRecommendations returns, in catalog order, the first 5
\* products not interacted with whose category is preferred (every category
\* when none is preferred).
C9_Fallback ==
    (res.op = "getFallbackRecommendations" /\ res.status = "returned") =>
        IsFirstEligible(res.recommendations, res.context)

\* three Fruits clicks: only the Fruits product not clicked is recommended
C9_Witness ==
    /\ res.op = "getFallbackRecommendations"
    /\ res.status = "returned"
    /\ res.context = FruitsContext
    /\ RecIds(res.recommendations) = <<2>>

\* an entry of the response that names a catalog product by a positive
\* number, a string being converted to a number first
IsValidEntry(e, ctx) ==
    /\ ~e.null
    /\ LET id == IF e.productId.t = "str" THEN parseInt(e.productId.s) ELSE e.productId
       IN id.t = "num" /\ id.n > 0 /\ id.n \in CatalogIds(ctx)

EntryId(e) == IF e.productId.t = "str" THEN parseInt(e.productId.s).n ELSE e.productId.n

\* C10: when the response parses as a JSON array with at least one valid
\* entry, the list returned holds exactly the valid entries, in response
\* order.
C10_ValidEntries ==
    ( /\ IsResult
      /\ res.reply.kind = "text"
      /\ JSONparse(Trim(StripFences(res.reply.text))).ok
      /\ JSONparse(Trim(StripFences(res.reply.text))).v.kind = "array"
      /\ \E i \in 1..Len(JSONparse(Trim(StripFences(res.reply.text))).v.items) :
            IsValidEntry(JSONparse(Trim(StripFences(res.reply.text))).v.items[i], res.used.v) )
    => LET items == JSONparse(Trim(StripFences(res.reply.text))).v.items
           valid == SelectSeq(items, LAMBDA e : IsValidEntry(e, res.used.v))
       IN RecIds(res.recommendations) = [i \in 1..Len(valid) |-> EntryId(valid[i])]

\* C11: no result of getRecommendations holds two recommendations with the
\* same productId, whichever path produced it.
C11_NoDuplicates ==
    IsResult =>
        \A i, j \in 1..Len(res.recommendations) :
            i # j => res.recommendations[i].productId # res.recommendations[j].productId

\* the 'click' records of the calls made so far, in the order of the calls
ClicksTracked == SelectSeq(log, LAMBDA r : r.action = "click")

\* C13: after any sequence of trackUserInteraction calls, clickedItems has
\* at most 50 entries and is the last min(50, n) of the n click records
\* tracked, in the order they were tracked.
C13_LastFifty ==
    LET n == Len(ClicksTracked)
        stored == getClickedItems(store).v
    IN /\ Len(stored) <= 50
       /\ Len(stored) = Min(50, n)
       /\ \A k \in 1..Len(stored) : stored[k] = ClicksTracked[n - Len(stored) + k]

\* more than 50 clicks were tracked, the last of them after other calls,
\* and the oldest click is no longer stored
C13_Witness ==
    /\ Len(ClicksTracked) > 50
    /\ Len(getClickedItems(store).v) = 50
    /\ getClickedItems(store).v[50].id = 101
    /\ getClickedItems(store).v[1] # ClicksTracked[1]
    /\ Len(getCartItems(store).v) > 0

\* C14: a trackUserInteraction(action, item) call puts one record at the end
\* of the collection of its action kind and leaves the other two
\* collections as they were; the records stored before keep their content
\* and order (the click list dropping only its oldest entries), and
\* cartItems and mostOrderedItems grow by exactly that record.
C14_AppendsToOwnCollection ==
    [][ Len(log') = Len(log) + 1 =>
          LET rec == log'[Len(log')]
              key == CASE rec.action = "click" -> "clickedItems"
                       [] rec.action = "addToCart" -> "cartItems"
                       [] rec.action = "order" -> "mostOrderedItems"
              old == store[key].v
              new == store'[key].v
          IN /\ \A other \in {"clickedItems", "cartItems", "mostOrderedItems"} \ {key} :
                    store'[other] = store[other]
             /\ new # <<>> /\ new[Len(new)] = rec
             /\ Len(new) <= Len(old) + 1
             /\ SubSeq(new, 1, Len(new) - 1) = SliceLast(old, Len(new) - 1)
             /\ key # "clickedItems" => new = Append(old, rec) ]_vars

\* an order was tracked after a cart addition while the click list is full:
\* each record sits at the end of its own collection
C14_Witness ==
    /\ Len(log) >= 2
    /\ log[Len(log)].action = "order"
    /\ log[Len(log) - 1].action = "addToCart"
    /\ Len(getClickedItems(store).v) = 50
    /\ getMostOrderedItems(store).v = <<log[Len(log)]>>
    /\ getCartItems(store).v = <<log[Len(log) - 1]>>

\* the shortest MIN_REQUEST_INTERVAL of the process
ShortestInterval ==
    CHOOSE t \in {MIN_REQUEST_INTERVAL(m) : m \in Limited} :
        \A m \in Limited : t <= MIN_REQUEST_INTERVAL(m)

\* C15: between any two consecutive backend requests of the process,
\* whichever of the five functions issued them, at least the minimum
\* request interval elapses.
C15_ProcessWideSpacing ==
    \A i \in 1..(Len(rl.sent) - 1) :
        rl.sent[i + 1].at - rl.sent[i].at >= ShortestInterval

\* C16: the backend requests of one rate-limited function are at least its
\* MIN_REQUEST_INTERVAL apart, also when a call arrives while an earlier
\* call of the function is waiting in its delay.
C16_PerFunctionSpacing ==
    \A m \in Limited :
        \A i, j \in 1..Len(rl.sent) :
            (i < j /\ rl.sent[i].caller = m /\ rl.sent[j].caller = m)
                => rl.sent[j].at - rl.sent[i].at >= MIN_REQUEST_INTERVAL(m)

\* C17: with a configured model, a call to a rate-limited generateAIResponse
\* that arrives sooner than the interval after the previous request is not
\* rejected: it waits, its request is not issued before the interval has
\* elapsed since that previous request, and it is issued eventually.
C17_DelayedNotRejected ==
    /\ [](model =>
            \A i \in 1..Len(rl.calls) :
                LET c == rl.calls[i]
                IN c.caller \in Limited =>
                      /\ c.pc \in {"waiting", "sent"}
                      /\ c.pc = "waiting" => c.early
                      /\ c.pc = "sent" =>
                            c.at - c.since >= MIN_REQUEST_INTERVAL(c.caller))
    /\ \A i \in 1..MaxCalls :
          (i <= Len(rl.calls) /\ rl.calls[i].pc = "waiting")
              ~> (i <= Len(rl.calls) /\ rl.calls[i].pc = "sent")

\* a call that found the previous request too recent has been delayed and
\* has issued its request one interval after it
C17_Witness ==
    \E i \in 1..Len(rl.calls) :
        /\ rl.calls[i].caller \in Limited
        /\ rl.calls[i].pc = "sent"
        /\ rl.calls[i].early
        /\ rl.calls[i].at - rl.calls[i].since >= MIN_REQUEST_INTERVAL(rl.calls[i].caller)
        /\ \E j \in 1..Len(rl.sent) :
              /\ rl.sent[j].caller = rl.calls[i].caller
              /\ rl.sent[j].at = rl.calls[i].since

\* the generateContent request of the call in progress failed or its text
\* was not valid JSON
FailedOrInvalid(reply) ==
    \/ reply.kind = "raise"
    \/ reply.kind = "text" /\ ~JSONparse(Trim(StripFences(reply.text))).ok

\* C18: one getRecommendations call issues at most one generateContent
\* request: a request is only issued by a call that starts, the step that
\* settles it ends the call, and after a failed or invalid request the list
\* returned is the rule-based fallback list.
C18_AtMostOneRequest ==
    [][ /\ pc' = "awaiting" => (pc = "idle" /\ call'.calls = 1)
        /\ pc = "awaiting" =>
              /\ pc' = "idle"
              /\ res'.op = "getRecommendations"
              /\ res'.calls = 1
              /\ ( /\ FailedOrInvalid(res'.reply)
                   /\ getFallbackRecommendations(call.ctx).ok )
                 => /\ res'.status = "returned"
                    /\ res'.recommendations = getFallbackRecommendations(call.ctx).v
        /\ res'.calls <= 1 ]_vars

\* a call whose only request was rejected returned a fallback list
C18_Witness ==
    /\ IsResult
    /\ res.calls = 1
    /\ res.reply.kind = "raise"
    /\ Len(res.recommendations) > 0
    /\ res.recommendations = getFallbackRecommendations(res.used.v).v

\* C19: when no model was configured at module start, no getRecommendations
\* call of the session issues a backend request, and every result whose
\* context has interaction history holds getFallbackRecommendations of that
\* context.
C19_NoModelNoRequest ==
    ~model =>
        /\ pc # "awaiting"
        /\ call = NoCall
        /\ IsResult =>
              /\ res.calls = 0
              /\ res.reply = NoReply
              /\ Len(Streams(res.context)) > 0 =>
                    /\ getFallbackRecommendations(res.context).ok
                    /\ res.recommendations = getFallbackRecommendations(res.context).v

\* without a model, a call over a store with history returned fallback
\* recommendations
C19_Witness ==
    /\ ~model
    /\ IsResult
    /\ ~res.arg.given
    /\ Len(Streams(res.context)) > 0
    /\ Len(res.recommendations) > 0
    /\ res.calls = 0

\* the product list of the store can be read and is empty
StoredCatalogEmpty(st) ==
    getRelevantAppData(st).ok /\ getRelevantAppData(st).v = <<>>

\* this step completes a getRecommendations call made with a context whose
\* catalog is empty
CompletesOnEmptyContext ==
    /\ res' # res
    /\ res'.op = "getRecommendations"
    /\ res'.arg.given
    /\ res'.arg.ctx.appData.products = <<>>

\* this step is the start of a getRecommendations call without a context
\* while the stored catalog is empty
StartsOnEmptyStore ==
    /\ pc = "idle"
    /\ StoredCatalogEmpty(store)
    /\ \/ pc' = "awaiting" /\ ~call'.arg.given
       \/ res' # res /\ res'.op = "getRecommendations" /\ ~res'.arg.given

RecommendationStep ==
    \/ pc' = "awaiting"
    \/ pc = "awaiting"
    \/ res' # res /\ res'.op = "getRecommendations"

\* C21: a getRecommendations call leaves every key of the persisted store
\* with the value it held before, whatever the store holds.
C21_StoreUntouched ==
    [][RecommendationStep => \A key \in Keys : store'[key] = store[key]]_vars

\* C29: every result of getRecommendations holds at most 5 recommendations,
\* on the AI path as on the cold-start and fallback paths.
C29_AtMostFive ==
    IsResult => Len(res.recommendations) <= 5

\* the catalog of a context holds a product that is in none of its three
\* interaction lists
HasFreshProduct(ctx) ==
    \E i \in 1..Len(ctx.appData.products) :
        \A k \in 1..Len(Streams(ctx)) :
            Streams(ctx)[k].id # ctx.appData.products[i].product_id

\* C30: when the catalog holds a product the user has not interacted with,
\* the rule-based fallback returns at least one recommendation, and so does
\* getRecommendations when its list is not the list of the AI response.
C30_FallbackNotEmpty ==
    ( /\ \/ res.op = "getFallbackRecommendations" /\ res.status = "returned"
         \/ IsResult /\ ~AIListKept(res)
      /\ HasFreshProduct(res.context) )
    => Len(res.recommendations) > 0

(***************************************************************************)
(* The shopping assistant (EnhancedChatbot): the component                 *)
(***************************************************************************)
\* effect runs of loadInitialData in one behaviour
MaxLoads == 2

\* words typed around a phrase in one query
MaxExtra == 1

\* messages sent in one behaviour of the session specification
MaxSends == 2

\* products clicked in one behaviour
MaxClicks == 1

\* the texts the widget offers as suggestions and quick actions
Offer ==
    [ Show_me_all_stores |->
          <<"S", "h", "o", "w", " ", "m", "e", " ", "a", "l", "l", " ", "s", "t", "o", "r", "e", "s">>,
      How_to_checkout |->
          <<"H", "o", "w", " ", "t", "o", " ", "c", "h", "e", "c", "k", "o", "u", "t", "?">>,
      How_do_I_checkout |->
          <<"H", "o", "w", " ", "d", "o", " ", "I", " ", "c", "h", "e", "c", "k", "o", "u", "t", "?">>,
      Browse_categories |->
          <<"B", "r", "o", "w", "s", "e", " ", "c", "a", "t", "e", "g", "o", "r", "i", "e", "s">>,
      Search_all_products |->
          <<"S", "e", "a", "r", "c", "h", " ", "a", "l", "l", " ", "p", "r", "o", "d", "u", "c", "t", "s">>,
      Popular_products |->
          <<"P", "o", "p", "u", "l", "a", "r", " ", "p", "r", "o", "d", "u", "c", "t", "s">>,
      Retry_loading |->
          <<"R", "e", "t", "r", "y", " ", "l", "o", "a", "d", "i", "n", "g">>,
      Try_again |-> <<"T", "r", "y", " ", "a", "g", "a", "i", "n">>,
      Find_fruits |->
          <<"F", "i", "n", "d", " ", "f", "r", "u", "i", "t", "s">>,
      Products_under_KSh_100 |->
          <<"P", "r", "o", "d", "u", "c", "t", "s", " ", "u", "n", "d", "e", "r", " ", "K", "S", "h", " ", "1", "0", "0">>,
      Help_me_shop |->
          <<"H", "e", "l", "p", " ", "m", "e", " ", "s", "h", "o", "p">> ]

\* the data of the hooks useCategories, useProducts and useStores
Fruits == [name |-> <<"F", "r", "u", "i", "t", "s">>,
           description |-> <<"F", "r", "e", "s", "h", " ", "p", "r", "o", "d", "u", "c", "e">>]

Apple == [name |-> <<"A", "p", "p", "l", "e">>, price |-> <<"5", "0">>]

Milk == [name |-> <<"M", "i", "l", "k">>, price |-> <<"1", "5", "0">>]

Bread == [name |-> <<"B", "r", "e", "a", "d">>, price |-> <<"n", "/", "a">>]

ShopCatalogs ==
    { [categories |-> <<Fruits>>, products |-> <<Apple, Milk, Bread>>],
      [categories |-> <<>>, products |-> <<Apple>>] }

StoreCounts == {0, 2}

\* the effect that shows the first message once the data is loaded
Welcome(sh) ==
    IF sh.messages = <<>> /\ sh.dataLoaded
    THEN [sh EXCEPT !.messages =
            <<ChatMessage(1, "bot",
                          IF sh.categories # <<>> THEN "welcome" ELSE "catalogTrouble",
                          0)>>]
    ELSE sh

\* the mounted component: the state hooks at their initial values and the
\* first run of loadInitialData under way
Mounted(catalog, storeCount, hasModel) ==
    [NoShop EXCEPT !.mounted = TRUE, !.model = hasModel,
                   !.categories = catalog.categories,
                   !.products = catalog.products, !.stores = storeCount,
                   !.isLoading = TRUE, !.loads = 1, !.started = 1]

\* the effect runs again, on a new apiService
loadInitialData ==
    /\ shop.mounted
    /\ shop.started < MaxLoads
    /\ shop' = [shop EXCEPT !.isLoading = TRUE, !.loadingError = FALSE,
                            !.loads = @ + 1, !.started = @ + 1]
    /\ UNCHANGED <<store, model, pc, call, res, log, rl, chat, demo>>

\* the three requests of loadInitialData settle
LoadSettles(ok) ==
    /\ shop.loads > 0
    /\ shop' = Welcome([shop EXCEPT !.dataLoaded = ok,
                                    !.loadingError = IF ok THEN @ ELSE TRUE,
                                    !.isLoading = FALSE, !.loads = @ - 1])
    /\ UNCHANGED <<store, model, pc, call, res, log, rl, chat, demo>>

\* the round button
ToggleOpen ==
    /\ shop.mounted
    /\ shop' = [shop EXCEPT !.isOpen = ~@]
    /\ UNCHANGED <<store, model, pc, call, res, log, rl, chat, demo>>

\* the chat window with its input is rendered and the input is enabled
InputShown(sh) ==
    /\ sh.mounted
    /\ sh.isOpen
    /\ ~(~sh.dataLoaded /\ sh.isLoading)
    /\ sh.products # <<>>
    /\ ~sh.isLoading

\* handleSendMessage on the text of the input. A query that handleQuery
\* answers without an await has its reply appended before any other event.
handleSendMessage(query) ==
    /\ InputShown(shop)
    /\ trim(query) # <<>>
    /\ LET r == handleQuery(shop, query)
           userMessage == ChatMessage(shop.now, "user", query, 0)
           botMessage == ChatMessage(shop.now + 1, "bot", r.response, r.products)
       IN shop' =
            IF r.await = "none"
            THEN [shop EXCEPT !.messages = @ \o <<userMessage, botMessage>>,
                              !.nav = @ \o r.nav,
                              !.isOpen = IF r.close THEN FALSE ELSE @]
            ELSE [shop EXCEPT !.messages = Append(@, userMessage),
                              !.nav = @ \o r.nav,
                              !.isOpen = IF r.close THEN FALSE ELSE @,
                              !.isLoading = TRUE,
                              !.pending = [await |-> r.await]]
    /\ UNCHANGED <<store, model, pc, call, res, log, rl, chat, demo>>

\* handleQuery resumes from its await and returns; handleSendMessage
\* appends the reply
QuerySettles ==
    /\ shop.pending.await # "none"
    /\ \E r \in Resumes(shop, shop.pending.await) :
          shop' = [shop EXCEPT
                      !.messages = Append(@, ChatMessage(shop.now + 1, "bot",
                                                         r.response, r.products)),
                      !.dataLoaded = IF r.loaded THEN TRUE ELSE @,
                      !.loadingError = IF r.loaded THEN FALSE ELSE @,
                      !.isLoading = FALSE,
                      !.pending = NoPending]
    /\ UNCHANGED <<store, model, pc, call, res, log, rl, chat, demo>>

\* handleProductClick on a product shown in a reply
handleProductClick ==
    /\ shop.mounted /\ shop.isOpen
    /\ \E i \in 1..Len(shop.messages) : shop.messages[i].products > 0
    /\ Len(SelectSeq(shop.messages, LAMBDA m : m.content = "selected")) < MaxClicks
    /\ shop' = [shop EXCEPT
                   !.messages = Append(@, ChatMessage(shop.now, "bot", "selected", 0)),
                   !.nav = Append(@, "product")]
    /\ UNCHANGED <<store, model, pc, call, res, log, rl, chat, demo>>

\* the clock of the page moves on
TickShop ==
    /\ shop.mounted
    /\ shop.ticks < MaxTicks
    /\ shop' = [shop EXCEPT !.now = @ + 1, !.ticks = @ + 1]
    /\ UNCHANGED <<store, model, pc, call, res, log, rl, chat, demo>>

\* the user messages of the conversation
Sends(sh) == Len(SelectSeq(sh.messages, LAMBDA m : m.type = "user"))

\* what a user types: a text the widget offers or a phrase, with up to
\* MaxExtra more words before or after it, in the letter case typed, in
\* lower case or in upper case
Phrases ==
    { Phrase.Show_me_stores, Offer.Show_me_all_stores, Offer.How_to_checkout, Offer.How_do_I_checkout,
      Offer.Browse_categories, Offer.Search_all_products, Offer.Popular_products, Offer.Retry_loading,
      Offer.Try_again, Offer.Find_fruits, Offer.Products_under_KSh_100, Offer.Help_me_shop,
      Phrase.go_to_checkout, Phrase.view_checkout, Phrase.retry, Phrase.view_my_cart, Phrase.browse_stores,
      <<"a", "p", "p", "l", "e">>, <<"h", "e", "l", "l", "o">>, <<" ", " ">> }

Words == { <<"p", "l", "e", "a", "s", "e">> }

\* the lists of at most n words
WordLists(n) == UNION {[1..k -> Words] : k \in 0..n}

RECURSIVE Before(_)
\* words typed before a phrase, each followed by a blank
Before(ws) == IF ws = <<>> THEN <<>> ELSE ws[1] \o <<" ">> \o Before(Tail(ws))

RECURSIVE After(_)
\* words typed after a phrase, each after a blank
After(ws) == IF ws = <<>> THEN <<>> ELSE <<" ">> \o ws[1] \o After(Tail(ws))

Typed ==
    UNION { { Before(pre) \o p \o After(post) :
                post \in WordLists(MaxExtra - Len(pre)), p \in Phrases } :
            pre \in WordLists(MaxExtra) }

Queries == Typed \cup {lowerCase(q) : q \in Typed} \cup {upperCase(q) : q \in Typed}

\* the session of the routing questions: the data loads or fails to, the
\* user opens the window and sends one query
InitRoute ==
    /\ store = FreshStore
    /\ model = FALSE
    /\ pc = "idle"
    /\ call = NoCall
    /\ res = NoRes
    /\ log = <<>>
    /\ rl = NoLimiter
    /\ shop \in {Mounted(c, n, m) : c \in ShopCatalogs, n \in StoreCounts, m \in BOOLEAN}
    /\ chat = NoChat
    /\ demo = NoDemo

LoadSucceeds == LoadSettles(TRUE)

LoadFails == LoadSettles(FALSE)

Ask == \E query \in Queries : Sends(shop) < 1 /\ handleSendMessage(query)

NextRoute ==
    loadInitialData \/ LoadSucceeds \/ LoadFails \/ ToggleOpen \/ Ask \/ QuerySettles

SpecRoute == InitRoute /\ [][NextRoute]_vars

\* a step of the shopping assistant's handleSendMessage, and the query sent
ShopSends == Sends(shop') = Sends(shop) + 1

SentQuery == shop'.messages[Len(shop.messages) + 1].content

\* the reply to the query sent, when the step appends it
ShopReplied(response) ==
    /\ Len(shop'.messages) = Len(shop.messages) + 2
    /\ shop'.messages[Len(shop.messages) + 2].type = "bot"
    /\ shop'.messages[Len(shop.messages) + 2].content = response

\* C22: with the data loaded, a query that contains 'go to checkout' or
\* 'view checkout' invokes onNavigateToCheckout and is answered by the
\* 'Taking you to checkout!' response
C22_CheckoutNavigates ==
    [][ ( /\ ShopSends
          /\ shop.dataLoaded
          /\ \/ includes(lowerCase(SentQuery), Phrase.go_to_checkout)
             \/ includes(lowerCase(SentQuery), Phrase.view_checkout) )
        => ( /\ \E i \in 1..Len(shop'.nav) :
                    i > Len(shop.nav) /\ shop'.nav[i] = "checkout"
             /\ ShopReplied("toCheckout") ) ]_vars

\* C23: with the data loaded and a store available, the query 'Show me
\* stores' of the suggestions and the quick action, in any letter case,
\* invokes onNavigateToStores and closes the chat window
C23_ShowMeStoresNavigates ==
    [][ ( /\ ShopSends
          /\ shop.dataLoaded
          /\ shop.stores > 0
          /\ lowerCase(SentQuery) = lowerCase(Phrase.Show_me_stores) )
        => ( /\ \E i \in 1..Len(shop'.nav) :
                    i > Len(shop.nav) /\ shop'.nav[i] = "stores"
             /\ ~shop'.isOpen ) ]_vars

\* C24: while dataLoaded is false, a query that contains 'retry' or 'try
\* again' starts the three requests of the load again
C24_RetryReloads ==
    [][ ( /\ ShopSends
          /\ ~shop.dataLoaded
          /\ \/ includes(lowerCase(SentQuery), Phrase.retry)
             \/ includes(lowerCase(SentQuery), Phrase.try_again) )
        => ( \/ shop'.pending.await = "reload"
             \/ shop'.loads > shop.loads ) ]_vars

\* while dataLoaded is false every query is answered by the 'still loading'
\* response, without products and without a navigation callback
StillLoadingUntilLoaded ==
    [][ (ShopSends /\ ~shop.dataLoaded)
        => ( /\ ShopReplied("stillLoading")
             /\ shop'.messages[Len(shop'.messages)].products = 0
             /\ shop'.nav = shop.nav ) ]_vars

(***************************************************************************)
(* The AI chat components: handlers                                        *)
(***************************************************************************)
\* conversations started anew in one behaviour
MaxResets == 1

Components == {"ChatBotPage", "Conversation", "SessionChat"}

\* the greeting a component starts with
Greeting(id) == Message(id, "greeting", "bot", 0)

\* the component mounted: ChatBotPage and Conversation start with the
\* greeting, SessionChat sets it in its first effect
MountedChat(component, hasModel) ==
    [NoChat EXCEPT !.mounted = TRUE, !.component = component,
                   !.model = hasModel, !.messages = <<Greeting(1)>>]

\* what is typed into the input, and the labels of the quick actions
Hi == <<"h", "i">>

HiPadded == <<" ", "h", "i", " ">>

Blank == <<" ">>

Feeling_burned_out == <<"F", "e", "e", "l", "i", "n", "g", " ", "b", "u", "r", "n", "e", "d", " ", "o", "u", "t">>

ChatTexts == {Hi, HiPadded, Blank}

QuickLabels == {Feeling_burned_out}

\* the texts generateAIResponse resolves to when a model is configured: the
\* text of the model or one of the apologies of its catch block
AITexts == {"aiText", "tooManyRequests", "troubleConnecting"}

\* a user message is accepted: it is appended and isTyping is set. Without
\* a model generateAIResponse returns at once and the reply is appended
\* before any other event; with a model the call is under way.
Accept(ch, text) ==
    LET userMessage == Message(ch.now, text, "user", ch.conversation)
        botMessage == Message(ch.now + 1, "unable", "bot", ch.conversation)
    IN IF ch.model
       THEN [ch EXCEPT !.messages = Append(@, userMessage),
                       !.isTyping = TRUE,
                       !.calls = Append(@, [conversation |-> ch.conversation]),
                       !.sends = @ + 1]
       ELSE [ch EXCEPT !.messages = @ \o <<userMessage, botMessage>>,
                       !.isTyping = FALSE,
                       !.sends = @ + 1, !.replies = @ + 1]

\* if (!text.trim() || isTyping) return
Refused_NoTypingGuard(ch, text) == trim(text) = <<>>

Refused(ch, text) == trim(text) = <<>> \/ ch.isTyping

\* handleSendMessage of the three components
handleSendMessage_Chat(text) ==
    /\ chat.mounted
    /\ chat.sends < MaxSends
    /\ chat' = IF Refused(chat, text) THEN chat ELSE Accept(chat, trim(text))
    /\ UNCHANGED <<store, model, pc, call, res, log, rl, shop, demo>>

\* handleQuickAction of ChatBotPage and Conversation
handleQuickAction_Chat(label) ==
    /\ chat.mounted
    /\ chat.component \in {"ChatBotPage", "Conversation"}
    /\ chat.sends < MaxSends
    /\ chat' = IF chat.isTyping THEN chat ELSE Accept(chat, label)
    /\ UNCHANGED <<store, model, pc, call, res, log, rl, shop, demo>>

\* a generateAIResponse call resolves: the reply is appended to the list
\* as it is now and isTyping is cleared
ReplyArrives ==
    /\ chat.calls # <<>>
    /\ \E i \in 1..Len(chat.calls), text \in AITexts :
          chat' = [chat EXCEPT
                      !.messages = Append(@, Message(chat.now + 1, text, "bot",
                                                     chat.calls[i].conversation)),
                      !.isTyping = FALSE,
                      !.calls = SubSeq(@, 1, i - 1) \o SubSeq(@, i + 1, Len(@)),
                      !.replies = @ + 1]
    /\ UNCHANGED <<store, model, pc, call, res, log, rl, shop, demo>>

\* handleNewConversation of ChatBotPage and Conversation: the list becomes
\* a fresh greeting, whose id is the time
handleNewConversation ==
    /\ chat.mounted
    /\ chat.component \in {"ChatBotPage", "Conversation"}
    /\ chat.resets < MaxResets
    /\ chat' = [chat EXCEPT
                   !.messages = <<Message(chat.now, "greeting", "bot",
                                          chat.conversation + 1)>>,
                   !.conversation = @ + 1, !.resets = @ + 1]
    /\ UNCHANGED <<store, model, pc, call, res, log, rl, shop, demo>>

\* the clock of the page moves on
TickChat ==
    /\ chat.mounted
    /\ chat.ticks < MaxTicks
    /\ chat' = [chat EXCEPT !.now = @ + 1, !.ticks = @ + 1]
    /\ UNCHANGED <<store, model, pc, call, res, log, rl, shop, demo>>

InitChat ==
    /\ store = FreshStore
    /\ model = FALSE
    /\ pc = "idle"
    /\ call = NoCall
    /\ res = NoRes
    /\ log = <<>>
    /\ rl = NoLimiter
    /\ shop = NoShop
    /\ chat \in {MountedChat(c, m) : c \in Components, m \in BOOLEAN}
    /\ demo = NoDemo

Send == \E text \in ChatTexts : handleSendMessage_Chat(text)

QuickAction == \E label \in QuickLabels : handleQuickAction_Chat(label)

NextChat == Send \/ QuickAction \/ ReplyArrives \/ handleNewConversation \/ TickChat

SpecChat == InitChat /\ [][NextChat]_vars

\* the conversation without the clock, which no handler branches on and
\* which only the ids depend on
NextTalk == Send \/ QuickAction \/ ReplyArrives \/ handleNewConversation

\* every call of generateAIResponse settles: its timer fires and the
\* backend answers or fails
SpecChatFair == InitChat /\ [][NextTalk]_vars /\ WF_vars(ReplyArrives)

\* the user messages in the list of a chat component
UserMessages(ch) == Len(SelectSeq(ch.messages, LAMBDA m : m.sender = "user"))

\* a step that accepts a send or a quick action
ChatAccepts == chat'.sends = chat.sends + 1

\* C25: in the AI chat components a send or quick action attempted while
\* isTyping is true changes nothing; an accepted send appends the user
\* message and sets isTyping, and it is eventually followed by exactly one
\* appended bot message, after which isTyping is false again, whether the
\* backend call succeeds, fails or no model is configured
C25_OneReplyPerSend ==
    /\ [][ /\ chat.isTyping =>
                 /\ ~ChatAccepts
                 /\ UserMessages(chat') <= UserMessages(chat)
           /\ ChatAccepts =>
                 /\ UserMessages(chat') = UserMessages(chat) + 1
                 /\ \/ chat'.isTyping /\ chat'.replies = chat.replies
                    \/ ~chat'.isTyping /\ chat'.replies = chat.replies + 1
           /\ chat'.replies \in {chat.replies, chat.replies + 1} ]_vars
    /\ [](chat.isTyping <=> chat.replies + 1 = chat.sends)
    /\ [](~chat.isTyping <=> chat.replies = chat.sends)
    /\ \A n \in 1..MaxSends :
          (chat.sends = n /\ chat.isTyping) ~> (chat.replies = n /\ ~chat.isTyping)

\* a component with a model has answered a message and is idle again
C25_Witness == chat.model /\ chat.replies >= 1 /\ ~chat.isTyping /\ chat.calls = <<>>

\* C26: in ChatBotPage and Conversation, after handleNewConversation the
\* list holds only the fresh greeting and the messages sent after the
\* reset with their replies: no reply to a message sent before the reset
\* is appended to the new conversation
C26_NoLateReply ==
    chat.component \in {"ChatBotPage", "Conversation"} =>
        \A i \in 1..Len(chat.messages) :
            chat.messages[i].conversation = chat.conversation

(***************************************************************************)
(* The demo widget (ChatBot)                                               *)
(***************************************************************************)
\* setTimeout(..., 1500)
ReplyDelay == 1500

\* the steps the clock of the demo widget moves by
DemoDelays == {500, 1500}

\* the topics of the quick actions, and their labels
Topics == {"burnout", "imposter"}

Imposter_syndrome == <<"I", "m", "p", "o", "s", "t", "e", "r", " ", "s", "y", "n", "d", "r", "o", "m", "e">>

TopicLabel(topic) == IF topic = "burnout" THEN Feeling_burned_out ELSE Imposter_syndrome

MountedDemo == [NoDemo EXCEPT !.mounted = TRUE, !.messages = <<Greeting(1)>>]

\* a user message is appended, isTyping is set and the reply timer is set
Posted(d, text, reply) ==
    [d EXCEPT !.messages = Append(@, Message(d.now, text, "user", 0)),
              !.isTyping = TRUE,
              !.timers = Append(@, [due |-> d.now + ReplyDelay, reply |-> reply]),
              !.sends = @ + 1]

\* handleSendMessage of the demo widget
handleSendMessage_Demo(text) ==
    /\ demo.mounted
    /\ demo.sends < MaxSends
    /\ demo' = IF trim(text) = <<>> THEN demo ELSE Posted(demo, trim(text), "default")
    /\ UNCHANGED <<store, model, pc, call, res, log, rl, shop, chat>>

\* handleQuickAction of the demo widget
handleQuickAction_Demo(topic) ==
    /\ demo.mounted
    /\ demo.sends < MaxSends
    /\ demo' = Posted(demo, TopicLabel(topic), topic)
    /\ UNCHANGED <<store, model, pc, call, res, log, rl, shop, chat>>

\* the earliest reply timer fires, at its due time or later: the reply is
\* appended and isTyping is cleared
ReplyTimerFires ==
    /\ demo.timers # <<>>
    /\ demo.timers[1].due <= demo.now
    /\ demo' = [demo EXCEPT
                   !.messages = Append(@, Message(demo.now + 1, demo.timers[1].reply,
                                                  "bot", 0)),
                   !.isTyping = FALSE,
                   !.timers = Tail(@),
                   !.replies = @ + 1]
    /\ UNCHANGED <<store, model, pc, call, res, log, rl, shop, chat>>

\* time passes
AdvanceDemo ==
    /\ demo.mounted
    /\ demo.ticks < MaxTicks
    /\ \E d \in DemoDelays : demo' = [demo EXCEPT !.now = @ + d, !.ticks = @ + 1]
    /\ UNCHANGED <<store, model, pc, call, res, log, rl, shop, chat>>

InitDemo ==
    /\ store = FreshStore
    /\ model = FALSE
    /\ pc = "idle"
    /\ call = NoCall
    /\ res = NoRes
    /\ log = <<>>
    /\ rl = NoLimiter
    /\ shop = NoShop
    /\ chat = NoChat
    /\ demo = MountedDemo

SendDemo == \E text \in ChatTexts : handleSendMessage_Demo(text)

QuickActionDemo == \E topic \in Topics : handleQuickAction_Demo(topic)

NextDemo == SendDemo \/ QuickActionDemo \/ ReplyTimerFires \/ AdvanceDemo

SpecDemo == InitDemo /\ [][NextDemo]_vars

\* C27: in the demo widget, under every interleaving of handleSendMessage
\* and handleQuickAction calls and of their reply timers, isTyping is true
\* exactly while a reply timer is pending, and each user message is
\* followed by exactly one bot reply
C27_TypingWhilePending ==
    /\ demo.isTyping <=> demo.timers # <<>>
    /\ demo.replies + Len(demo.timers) = demo.sends
    /\ Len(demo.messages) = 1 + demo.sends + demo.replies

\* each user message of the demo widget gets one reply, whatever isTyping
\* shows
OneReplyPerMessage ==
    /\ demo.replies + Len(demo.timers) = demo.sends
    /\ Len(demo.messages) = 1 + demo.sends + demo.replies

(***************************************************************************)
(* The shopping assistant: a session                                       *)
(***************************************************************************)
\* the texts sent in a session
Offered ==
    {Phrase.Show_me_stores, Offer.Find_fruits, <<"a", "p", "p", "l", "e">>}

AskOffered == \E query \in Offered : Sends(shop) < MaxSends /\ handleSendMessage(query)

\* a session: the data loads or fails to, the user opens the window, sends
\* messages and clicks on products while the clock moves on
NextShop ==
    \/ LoadSucceeds \/ LoadFails \/ ToggleOpen \/ AskOffered \/ QuerySettles
    \/ handleProductClick \/ TickShop

SpecShop == InitRoute /\ [][NextShop]_vars

\* the ids of a message list are pairwise distinct
DistinctIds(messages) ==
    \A i, j \in 1..Len(messages) : i # j => messages[i].id # messages[j].id

\* C28: within the message list of one conversation all message ids are
\* pairwise distinct, whatever non-decreasing readings the clock gives
C28_DistinctIds == DistinctIds(shop.messages) /\ DistinctIds(chat.messages)

=============================================================================
